---- MODULE Spec2Model ----
(***************************************************************************)
(* Model of the OpenAPI sync MCP server core (mcp-servers/oas): the cache  *)
(* validity manager (services/cache.rs), the parse request that uses it    *)
(* (tools/parse.rs) and the files and HTTP resources they touch.           *)
(*                                                                         *)
(* Time is counted in ticks, TicksPerSec ticks to the second, so that the  *)
(* truncation of Duration::num_seconds is visible.  Rust's Option<T> is a  *)
(* sequence of length 0 (None) or 1 (Some).  An RFC 3339 string is the     *)
(* pair <<"T", ticks>>; any other string in that place is <<"?", 0>>.      *)
(***************************************************************************)
EXTENDS Integers, Sequences, FiniteSets, Bags, TLC

VARIABLES
    \* ---- direct calls of the cache validity functions (SpecCheck)
    chkCache,    \* the OasCache record handed to the function
    chkNow,      \* Utc::now() at the call, in ticks
    chkFn,       \* which function was called ("none" before the call)
    chkEnv,      \* what the environment answered during the call
    chkRet,      \* the boolean the function returned
    chkProbes,   \* HEAD requests sent during the call
    \* ---- one server process answering parse requests (Spec)
    now,         \* the wall clock, in ticks
    file,        \* the local spec file: [exists, mtime, doc]
    remote,      \* the HTTP server of the remote spec: [ver, etag, lm]
    cacheFile,   \* .openapi-sync.cache.json: None or Some(content)
    pc,          \* where parse_spec stands
    input,       \* the ParseInput of the request being answered
    loaded,      \* the record load_cache returned, if any
    is_valid,    \* parse_spec's is_valid, once computed
    fetched,     \* what fetch_content returned: [doc, headers, mtime]
    spec,        \* the ParsedSpec, once parsed
    result,      \* the ParseOutput, once built
    trace,       \* the request's I/O events so far, in order
    cacheAtStart,\* cacheFile when the request began
    savedBy,     \* which parse wrote the stored record: [source, mtime]
    atCheck,     \* at the validity check: [sameFile, sameMtime, fresh]
    nreq,        \* requests begun so far
    \* ---- processes saving and loading one project's cache file (SpecSave)
    dirFinal,    \* inode named .openapi-sync.cache.json, 0 when absent
    dirTmp,      \* inode named .openapi-sync.cache.json.tmp, 0 when absent
    inodes,      \* the text each inode holds
    writers,     \* per save_cache call: [pc, fd, res]
    reader,      \* the load_cache call: [pc, fd, res, cache]
    nloads,      \* load_cache calls begun so far
    \* ---- a dependency graph built and queried (SpecGraph)
    gspec,       \* the ParsedSpec the graph is built from
    graph,       \* the DependencyGraph
    gcall,       \* the last call: [fn, target, direction, is_schema]
    gret,        \* what it returned: [paths, schemas, stats]
    \* ---- one graph traversal run call by call (SpecWalk)
    wpc,         \* "idle", "running" or "done"
    wcall,       \* the traversal: [fn, target]
    wstack,      \* the activations of the recursive function
    wvisited,    \* the visited set
    wacc,        \* the result set being filled
    \* ---- two documents compared (SpecDiff)
    dOld,        \* the old ParsedSpec
    dNew,        \* the new ParsedSpec
    dWithGraph,  \* DiffInput::include_affected_paths
    dpc,         \* "idle", "done" or "failed"
    dDiff,       \* the SpecDiff DiffEngine::diff returned
    dBreakingOnly, \* DiffInput::breaking_only
    dOut,        \* the DiffOutput diff_specs returned
    \* ---- one document value parsed (SpecParser)
    vValue,      \* the serde_json::Value read from the text
    vpc,         \* "idle" or "done"
    vVersion,    \* what detect_version returned
    vRet,        \* what parse_content returned
    \* ---- one document listed page by page (SpecPages)
    pSpec,       \* the document every request parses again
    pInput,      \* the ParseInput of the next request
    ppc,         \* "ask", "answered" or "done"
    pOut,        \* the ParseOutput of the last request
    pItems       \* the items of the pages received so far, in order

checkVars == <<chkCache, chkNow, chkFn, chkEnv, chkRet, chkProbes>>

envVars == <<now, file, remote>>

reqVars ==
    <<cacheFile, pc, input, loaded, is_valid, fetched, spec, result, trace,
      cacheAtStart, savedBy, atCheck, nreq>>

parseVars == <<envVars, reqVars>>

saveVars == <<dirFinal, dirTmp, inodes, writers, reader, nloads>>

graphVars == <<gspec, graph, gcall, gret>>

walkVars == <<wpc, wcall, wstack, wvisited, wacc>>

diffVars == <<dOld, dNew, dWithGraph, dpc, dDiff, dBreakingOnly, dOut>>

\* the variables of the cache and request models, and of the pure core
ioVars == <<checkVars, parseVars, saveVars>>
parserVars == <<vValue, vpc, vVersion, vRet>>

pageVars == <<pSpec, pInput, ppc, pOut, pItems>>

pureVars == <<graphVars, walkVars, diffVars, parserVars, pageVars>>

vars == <<ioVars, pureVars>>

-----------------------------------------------------------------------------
(* Bounds of the model *)

\* Schema-to-schema references of a document the graph is built from.
MaxSchemaEdges == 3
\* Endpoint-to-schema references of such a document.
MaxPathEdges == 2
\* Call stack depth at which an unchecked traversal is cut.
MaxDepth == 4
\* Revisions of one schema or operation that differ outside the model.
MaxRev == 2

\* Clock resolution: ticks per second.
TicksPerSec == 2
\* The clock runs from 0 to MaxNow ticks.
MaxNow == 6
\* Width in bits of the model's u64 / i64 (scaled down from 64).
U64Bits == 21
\* The server's clock runs from 0 to MaxClock ticks.
MaxClock == 2
\* Parse requests one run of the server answers.
MaxRequests == 2
\* Versions the remote document goes through.
MaxRemoteVer == 2
\* load_cache calls made while the save_cache calls run.
MaxLoads == 2

-----------------------------------------------------------------------------
(* Option<T> *)

None == <<>>
Some(x) == <<x>>

-----------------------------------------------------------------------------
(* Timestamps: chrono's to_rfc3339 / parse_from_rfc3339 *)

ToRfc3339(t) == <<"T", t>>

BadStamp == <<"?", 0>>

ParseFromRfc3339(s) ==
    IF s[1] = "T" THEN [ok |-> TRUE, t |-> s[2]] ELSE [ok |-> FALSE, t |-> 0]

\* Duration::num_seconds: whole seconds, truncated toward zero.
NumSeconds(d) ==
    IF d >= 0 THEN d \div TicksPerSec ELSE -((-d) \div TicksPerSec)

\* `ttl_seconds as i64`: the two's-complement reading of a u64.
AsI64(u) == IF u >= 2^(U64Bits - 1) THEN u - 2^U64Bits ELSE u

U64Max == 2^U64Bits - 1

DEFAULT_TTL_SECONDS == 86400

-----------------------------------------------------------------------------
(* CacheManager::is_cache_expired *)

IsCacheExpiredGte(cache, t) ==
    LET p == ParseFromRfc3339(cache.last_fetch) IN
    IF ~p.ok THEN TRUE
    ELSE NumSeconds(t - p.t) >= AsI64(cache.ttl_seconds)

IsCacheExpiredTrusting(cache, t) ==
    LET p == ParseFromRfc3339(cache.last_fetch) IN
    IF ~p.ok THEN FALSE
    ELSE NumSeconds(t - p.t) > AsI64(cache.ttl_seconds)

IsCacheExpired(cache, t) ==
    LET p == ParseFromRfc3339(cache.last_fetch) IN
    IF ~p.ok THEN TRUE
    ELSE NumSeconds(t - p.t) > AsI64(cache.ttl_seconds)

-----------------------------------------------------------------------------
(* HTTP header values: HeaderValue::to_str succeeds only on visible ASCII *)

Hdr(s) == [ascii |-> TRUE, s |-> s]
OpaqueHdr == [ascii |-> FALSE, s |-> "bytes"]

\* response.headers().get(name).to_str(): Some(text) or None
HeaderStr(h) == IF h # None /\ h[1].ascii THEN Some(h[1].s) ELSE None

\* The outcome of client.head(url).send(): a network error or a response.
NetErr == [neterr |-> TRUE, etag |-> None, last_modified |-> None]
Response(e, m) == [neterr |-> FALSE, etag |-> e, last_modified |-> m]

-----------------------------------------------------------------------------
(* CacheManager::check_remote_cache: the returned boolean and whether the  *)
(* HEAD request was sent.  clientOk: reqwest's Client builder succeeded.   *)

CheckRemoteCacheProbeFirst(cache, t, clientOk, resp) ==
    IF ~clientOk THEN [ret |-> FALSE, probe |-> FALSE]
    ELSE IF IsCacheExpired(cache, t) THEN [ret |-> FALSE, probe |-> TRUE]
    ELSE IF resp.neterr THEN [ret |-> TRUE, probe |-> TRUE]
    ELSE IF HeaderStr(resp.etag) # None /\ cache.http_cache.etag # None
        THEN [ret |-> HeaderStr(resp.etag) = cache.http_cache.etag, probe |-> TRUE]
    ELSE IF HeaderStr(resp.last_modified) # None /\ cache.http_cache.last_modified # None
        THEN [ret |-> HeaderStr(resp.last_modified) = cache.http_cache.last_modified,
              probe |-> TRUE]
    ELSE [ret |-> TRUE, probe |-> TRUE]

CheckRemoteCacheLmFirst(cache, t, clientOk, resp) ==
    IF IsCacheExpired(cache, t) THEN [ret |-> FALSE, probe |-> FALSE]
    ELSE IF ~clientOk THEN [ret |-> FALSE, probe |-> FALSE]
    ELSE IF resp.neterr THEN [ret |-> TRUE, probe |-> TRUE]
    ELSE IF HeaderStr(resp.last_modified) # None /\ cache.http_cache.last_modified # None
        THEN [ret |-> HeaderStr(resp.last_modified) = cache.http_cache.last_modified,
              probe |-> TRUE]
    ELSE IF HeaderStr(resp.etag) # None /\ cache.http_cache.etag # None
        THEN [ret |-> HeaderStr(resp.etag) = cache.http_cache.etag, probe |-> TRUE]
    ELSE [ret |-> TRUE, probe |-> TRUE]

CheckRemoteCache(cache, t, clientOk, resp) ==
    IF IsCacheExpired(cache, t) THEN [ret |-> FALSE, probe |-> FALSE]
    ELSE IF ~clientOk THEN [ret |-> FALSE, probe |-> FALSE]
    ELSE IF resp.neterr THEN [ret |-> TRUE, probe |-> TRUE]
    ELSE IF HeaderStr(resp.etag) # None /\ cache.http_cache.etag # None
        THEN [ret |-> HeaderStr(resp.etag) = cache.http_cache.etag, probe |-> TRUE]
    ELSE IF HeaderStr(resp.last_modified) # None /\ cache.http_cache.last_modified # None
        THEN [ret |-> HeaderStr(resp.last_modified) = cache.http_cache.last_modified,
              probe |-> TRUE]
    ELSE [ret |-> TRUE, probe |-> TRUE]

-----------------------------------------------------------------------------
(* CacheManager::check_local_cache.  stat: the outcome of fs::metadata,    *)
(* ok = FALSE when it fails, mtime = None when modified() is unavailable.  *)

StatErr == [ok |-> FALSE, mtime |-> None]
StatOk(m) == [ok |-> TRUE, mtime |-> m]

CheckLocalCacheTtlOnly(cache, t, stat) ==
    IF IsCacheExpired(cache, t) THEN FALSE
    ELSE IF ~stat.ok THEN FALSE
    ELSE IF stat.mtime # None /\ cache.local_cache.mtime # None
        THEN ToRfc3339(stat.mtime[1]) = cache.local_cache.mtime[1]
    ELSE TRUE

CheckLocalCache(cache, t, stat) ==
    IF IsCacheExpired(cache, t) THEN FALSE
    ELSE IF ~stat.ok THEN FALSE
    ELSE IF stat.mtime # None /\ cache.local_cache.mtime # None
        THEN ToRfc3339(stat.mtime[1]) = cache.local_cache.mtime[1]
    ELSE FALSE

-----------------------------------------------------------------------------
(* OasCache records (types/config.rs) *)

NoMeta ==
    [title |-> None, version |-> None, openapi_version |-> None,
     endpoint_count |-> 0, schema_count |-> 0]

OasCache(last_fetch, source, ttl, etag, last_modified, mtime, hash, meta) ==
    [version |-> "1.0.0",
     last_fetch |-> last_fetch,
     spec_hash |-> hash,
     source |-> source,
     ttl_seconds |-> ttl,
     http_cache |-> [etag |-> etag, last_modified |-> last_modified],
     local_cache |-> [mtime |-> mtime],
     meta |-> meta]

-----------------------------------------------------------------------------
(* SpecCheck: the cache validity functions called directly on a record.    *)
(* Init draws the record and the clock; each action is one call, with the  *)
(* environment's answers (client construction, HEAD response, stat) drawn  *)
(* in the action.                                                          *)

Stamps == {ToRfc3339(t) : t \in 0..MaxNow} \cup {BadStamp}
Ttls == {0, 1, 2, DEFAULT_TTL_SECONDS, U64Max}
CachedEtags == {None, Some("e1")}
CachedLastModified == {None, Some("m1")}
CachedMtimes == {None, Some(ToRfc3339(0)), Some(ToRfc3339(1)), Some(BadStamp)}

CheckCaches ==
    {OasCache(lf, "src", ttl, e, m, mt, "h", NoMeta) :
        lf \in Stamps, ttl \in Ttls, e \in CachedEtags,
        m \in CachedLastModified, mt \in CachedMtimes}

RespEtags == {None, Some(Hdr("e1")), Some(Hdr("e2")), Some(OpaqueHdr)}
RespLastModified == {None, Some(Hdr("m1")), Some(Hdr("m2")), Some(OpaqueHdr)}
Responses == {NetErr} \cup {Response(e, m) : e \in RespEtags, m \in RespLastModified}
Stats == {StatErr, StatOk(None), StatOk(Some(0)), StatOk(Some(1))}

NoEnv == [clientOk |-> TRUE, resp |-> NetErr, stat |-> StatErr]

CheckInit ==
    /\ chkCache \in CheckCaches
    /\ chkNow \in 0..MaxNow
    /\ chkFn = "none"
    /\ chkEnv = NoEnv
    /\ chkRet = FALSE
    /\ chkProbes = 0

\* The check group at rest, for the specifications that do not use it.
CheckQuiet ==
    /\ chkCache = OasCache(BadStamp, "src", 0, None, None, None, "h", NoMeta)
    /\ chkNow = 0
    /\ chkFn = "none"
    /\ chkEnv = NoEnv
    /\ chkRet = FALSE
    /\ chkProbes = 0

CallIsCacheExpired ==
    /\ chkFn = "none"
    /\ chkFn' = "is_cache_expired"
    /\ chkRet' = IsCacheExpired(chkCache, chkNow)
    /\ UNCHANGED <<pureVars, parseVars, saveVars, chkCache, chkNow, chkEnv, chkProbes>>

CallCheckRemoteCache ==
    /\ chkFn = "none"
    /\ \E clientOk \in BOOLEAN, resp \in Responses :
        LET r == CheckRemoteCache(chkCache, chkNow, clientOk, resp) IN
        /\ chkFn' = "check_remote_cache"
        /\ chkEnv' = [clientOk |-> clientOk, resp |-> resp, stat |-> StatErr]
        /\ chkRet' = r.ret
        /\ chkProbes' = chkProbes + (IF r.probe THEN 1 ELSE 0)
    /\ UNCHANGED <<pureVars, parseVars, saveVars, chkCache, chkNow>>

CallCheckLocalCache ==
    /\ chkFn = "none"
    /\ \E stat \in Stats :
        /\ chkFn' = "check_local_cache"
        /\ chkEnv' = [clientOk |-> TRUE, resp |-> NetErr, stat |-> stat]
        /\ chkRet' = CheckLocalCache(chkCache, chkNow, stat)
    /\ UNCHANGED <<pureVars, parseVars, saveVars, chkCache, chkNow, chkProbes>>

CheckNext ==
    \/ CallIsCacheExpired
    \/ CallCheckRemoteCache
    \/ CallCheckLocalCache

\* Elapsed ticks between the record's last_fetch and the call.
ChkElapsed == chkNow - ParseFromRfc3339(chkCache.last_fetch).t
ChkStampOk == ParseFromRfc3339(chkCache.last_fetch).ok

-----------------------------------------------------------------------------
(* The cache file's text: serde_json::to_string_pretty / from_str.  A text *)
(* is a sequence of pieces, each piece knowing the record it spells and    *)
(* its place; a record with an ETag spells one piece longer.  The empty    *)
(* text and any text that is not one whole record do not deserialize.      *)

Size(cache) == 2 + Len(cache.http_cache.etag)

ToStringPretty(cache) == [i \in 1..Size(cache) |-> [of |-> cache, at |-> i]]

FromStr(content) ==
    IF content # <<>> /\ content = ToStringPretty(content[1].of)
    THEN [ok |-> TRUE, cache |-> content[1].of]
    ELSE [ok |-> FALSE,
          cache |-> OasCache(BadStamp, "", 0, None, None, None, "", NoMeta)]

\* CacheManager::load_cache on a cache file that is absent (None) or holds
\* some text: Ok(record), CacheNotFound or CacheCorrupted.
LoadCache(cf) ==
    IF cf = None
    THEN [ok |-> FALSE, err |-> "CacheNotFound", cache |-> FromStr(<<>>).cache]
    ELSE [ok |-> FromStr(cf[1]).ok, err |-> "CacheCorrupted",
          cache |-> FromStr(cf[1]).cache]

-----------------------------------------------------------------------------
(* Sources and documents *)

LocalSrc == "spec.yaml"
RemoteSrc == "https://api.example/spec.json"
Sources == {LocalSrc, RemoteSrc}

\* parse.rs: input.source.starts_with("http")
StartsWithHttp(source) == source = RemoteSrc
\* parser.rs: source.starts_with("http://") || source.starts_with("https://")
IsUrl(source) == source = RemoteSrc

\* Document texts: two well-formed ones and one that does not parse.
Docs == {"docA", "docB", "bad"}

SpecMetadata(doc) ==
    IF doc = "docA"
    THEN [title |-> "Pets", version |-> "1.0.0", description |-> Some("d"),
          openapi_version |-> "OpenApi30", endpoint_count |-> 1,
          schema_count |-> 1, tag_count |-> 1]
    ELSE [title |-> "Pets", version |-> "2.0.0", description |-> None,
          openapi_version |-> "Swagger2", endpoint_count |-> 2,
          schema_count |-> 1, tag_count |-> 0]

\* OpenApiParser::compute_hash of the whole document
ComputeHash(doc) == <<"sha256", doc>>

\* OpenApiParser::parse_content: a ParsedSpec or a parse failure
ParseContent(doc, source) ==
    IF doc = "bad"
    THEN [ok |-> FALSE, err |-> "E201",
          spec |-> [metadata |-> SpecMetadata(doc), spec_hash |-> ComputeHash(doc),
                    source |-> source]]
    ELSE [ok |-> TRUE, err |-> "",
          spec |-> [metadata |-> SpecMetadata(doc), spec_hash |-> ComputeHash(doc),
                    source |-> source]]

\* serde's name of an OpenApiVersion, quotes trimmed
SerdeVersion(v) ==
    IF v = "Swagger2" THEN "2.0" ELSE IF v = "OpenApi30" THEN "3.0" ELSE "3.1"

\* parse.rs: the version read back from the cache record
VersionFromCache(v) ==
    IF v = Some("2.0") THEN "Swagger2"
    ELSE IF v = Some("3.1") THEN "OpenApi31"
    ELSE "OpenApi30"

UnwrapOrDefault(o) == IF o = None THEN "" ELSE o[1]

-----------------------------------------------------------------------------
(* CacheManager::create_cache_with_headers, at clock t *)

CreateCacheWithHeaders(parsed, source, ttl_seconds, http_headers, t) ==
    [version |-> "1.0.0",
     last_fetch |-> ToRfc3339(t),
     spec_hash |-> parsed.spec_hash,
     source |-> source,
     ttl_seconds |-> IF ttl_seconds = None THEN DEFAULT_TTL_SECONDS ELSE ttl_seconds[1],
     http_cache |->
        [etag |-> IF http_headers = None THEN None ELSE http_headers[1].etag,
         last_modified |->
            IF http_headers = None THEN None ELSE http_headers[1].last_modified],
     local_cache |-> [mtime |-> None],
     meta |->
        [title |-> Some(parsed.metadata.title),
         version |-> Some(parsed.metadata.version),
         openapi_version |-> Some(SerdeVersion(parsed.metadata.openapi_version)),
         endpoint_count |-> parsed.metadata.endpoint_count,
         schema_count |-> parsed.metadata.schema_count]]

-----------------------------------------------------------------------------
(* ParseOutput (tools/parse.rs) *)

NoOutput == [success |-> FALSE, metadata |-> None, error |-> None]

UsingCache == "Using cached data. Use use_cache=false to force refresh."

\* parse.rs 124-142: the answer built from a valid cache record
CachedOutput(cache) ==
    [success |-> TRUE,
     metadata |-> Some(
        [title |-> UnwrapOrDefault(cache.meta.title),
         version |-> UnwrapOrDefault(cache.meta.version),
         description |-> None,
         openapi_version |-> VersionFromCache(cache.meta.openapi_version),
         endpoint_count |-> cache.meta.endpoint_count,
         schema_count |-> cache.meta.schema_count,
         tag_count |-> 0]),
     error |-> Some(UsingCache)]

\* parse.rs 152-162: the answer to a failed fetch or parse
ErrorOutput(e) == [success |-> FALSE, metadata |-> None, error |-> Some(e)]

\* parse.rs 206-216: the summary answer after a parse
ParsedOutput(parsed) ==
    [success |-> TRUE, metadata |-> Some(parsed.metadata), error |-> None]

-----------------------------------------------------------------------------
(* The environment of the server: clock, local file, remote server *)

RemoteDoc(ver) == IF ver % 2 = 1 THEN "docA" ELSE "docB"

\* The headers the server sends with version ver of the document.
RemoteEtag(r) == IF r.etag THEN Some(Hdr(<<"etag", r.ver>>)) ELSE None
RemoteLastModified(r) == IF r.lm THEN Some(Hdr(<<"lm", r.ver>>)) ELSE None

\* fs::metadata(path) of the local file
Stat(f) == IF f.exists THEN StatOk(Some(f.mtime)) ELSE StatErr

Tick ==
    /\ now < MaxClock
    /\ now' = now + 1
    /\ UNCHANGED <<pureVars, checkVars, saveVars, file, remote, reqVars>>

\* Somebody writes the local spec file: new text, modification time now.
WriteFile ==
    /\ \E doc \in {"docA", "bad"} :
        /\ ~(file.exists /\ file.mtime = now /\ file.doc = doc)
        /\ file' = [exists |-> TRUE, mtime |-> now, doc |-> doc]
    /\ UNCHANGED <<pureVars, checkVars, saveVars, now, remote, reqVars>>

RemoveFile ==
    /\ file.exists
    /\ file' = [file EXCEPT !.exists = FALSE]
    /\ UNCHANGED <<pureVars, checkVars, saveVars, now, remote, reqVars>>

\* The remote document is replaced by its next version.
RemoteUpdate ==
    /\ remote.ver < MaxRemoteVer
    /\ remote' = [remote EXCEPT !.ver = @ + 1]
    /\ UNCHANGED <<pureVars, checkVars, saveVars, now, file, reqVars>>

-----------------------------------------------------------------------------
(* parse_spec (tools/parse.rs), one step per I/O phase of the request *)

ParseTtls == {None, Some(0)}
ProjectDirs == {None, Some("proj")}

ParseInputs ==
    [source : Sources, use_cache : BOOLEAN, project_dir : ProjectDirs,
     ttl_seconds : ParseTtls]

NoInput ==
    [source |-> LocalSrc, use_cache |-> FALSE, project_dir |-> None,
     ttl_seconds |-> None]

NotChecked == [sameFile |-> FALSE, sameMtime |-> FALSE, fresh |-> FALSE]
NoHeaders == [etag |-> None, last_modified |-> None]
NoFetch == [doc |-> "bad", headers |-> NoHeaders, mtime |-> None]

\* A record left in the project directory by something else than this
\* server's parse: its last_fetch is not an RFC 3339 timestamp.
ForeignRecord ==
    OasCache(BadStamp, LocalSrc, DEFAULT_TTL_SECONDS, None, None,
             Some(ToRfc3339(0)), ComputeHash("docA"), NoMeta)

InitCacheFiles == {None, Some(<<>>), Some(ToStringPretty(ForeignRecord))}

\* The request arrives: parse_spec is entered.
StartRequest ==
    /\ pc = "idle"
    /\ nreq < MaxRequests
    /\ \E inp \in ParseInputs :
        /\ input' = inp
        /\ pc' = IF inp.use_cache /\ inp.project_dir # None THEN "load" ELSE "fetch"
    /\ nreq' = nreq + 1
    /\ cacheAtStart' = cacheFile
    /\ UNCHANGED <<pureVars, checkVars, saveVars, envVars, cacheFile, loaded, is_valid, fetched, spec, result,
                   trace, savedBy, atCheck>>

\* parse.rs 103-104: cache_manager.load_cache()
LoadStep ==
    /\ pc = "load"
    /\ trace' = Append(trace, "load_cache")
    /\ IF LoadCache(cacheFile).ok
       THEN loaded' = Some(LoadCache(cacheFile).cache) /\ pc' = "check"
       ELSE loaded' = None /\ pc' = "fetch"
    /\ UNCHANGED <<pureVars, checkVars, saveVars, envVars, cacheFile, input, is_valid, fetched, spec, result,
                   cacheAtStart, savedBy, atCheck, nreq>>

\* What the validity check adds to the trace.
CheckEvents(local, expired, probe) ==
    IF local THEN (IF expired THEN <<>> ELSE <<"stat">>)
    ELSE (IF probe THEN <<"head">> ELSE <<>>)

\* parse.rs 106-143: the validity check and, when valid, the cached answer
CheckStep ==
    /\ pc = "check"
    /\ \E clientOk \in BOOLEAN, neterr \in BOOLEAN :
        LET cache == loaded[1]
            resp == IF neterr THEN NetErr
                    ELSE Response(RemoteEtag(remote), RemoteLastModified(remote))
            rem == CheckRemoteCache(cache, now, clientOk, resp)
            local == ~StartsWithHttp(input.source)
            valid == IF local THEN CheckLocalCache(cache, now, Stat(file))
                     ELSE rem.ret
        IN
        /\ local => (clientOk /\ ~neterr)
        /\ is_valid' = Some(valid)
        /\ trace' = trace \o CheckEvents(local, IsCacheExpired(cache, now), rem.probe)
        /\ atCheck' =
            [sameFile |-> local /\ savedBy # None /\ savedBy[1].source = input.source,
             sameMtime |-> /\ savedBy # None
                           /\ file.exists
                           /\ savedBy[1].mtime = Some(file.mtime),
             fresh |-> ~IsCacheExpired(cache, now)]
        /\ IF valid
           THEN result' = CachedOutput(cache) /\ pc' = "done"
           ELSE result' = result /\ pc' = "fetch"
    /\ UNCHANGED <<pureVars, checkVars, saveVars, envVars, cacheFile, input, loaded, fetched, spec,
                   cacheAtStart, savedBy, nreq>>

\* OpenApiParser::fetch_content: the text and headers, or an error kind
FetchOutcomes(source) ==
    IF IsUrl(source)
    THEN {[ok |-> TRUE, err |-> "",
           got |-> [doc |-> RemoteDoc(remote.ver),
                    headers |-> [etag |-> HeaderStr(RemoteEtag(remote)),
                                 last_modified |-> HeaderStr(RemoteLastModified(remote))],
                    mtime |-> None]],
          [ok |-> FALSE, err |-> "E101", got |-> NoFetch],
          [ok |-> FALSE, err |-> "E103", got |-> NoFetch]}
    ELSE IF file.exists
    THEN {[ok |-> TRUE, err |-> "",
           got |-> [doc |-> file.doc, headers |-> NoHeaders,
                    mtime |-> Some(file.mtime)]]}
    ELSE {[ok |-> FALSE, err |-> "E301", got |-> NoFetch]}

\* parse.rs 149-164: OpenApiParser::parse_with_headers, fetch then parse
ParseStepWritingFirst ==
    /\ pc = "fetch"
    /\ \E f \in FetchOutcomes(input.source) :
        LET p == ParseContent(f.got.doc, input.source) IN
        /\ fetched' = f.got
        /\ cacheFile' = IF input.project_dir # None
                        THEN Some(ToStringPretty(CreateCacheWithHeaders(
                                p.spec, input.source, input.ttl_seconds,
                                Some(f.got.headers), now)))
                        ELSE cacheFile
        /\ IF ~f.ok
           THEN /\ trace' = Append(trace, "fetch_err")
                /\ result' = ErrorOutput(f.err)
                /\ spec' = None
                /\ pc' = "done"
           ELSE IF ~p.ok
           THEN /\ trace' = trace \o <<"fetch", "parse_err">>
                /\ result' = ErrorOutput(p.err)
                /\ spec' = None
                /\ pc' = "done"
           ELSE /\ trace' = trace \o <<"fetch", "parse_ok">>
                /\ result' = result
                /\ spec' = Some(p.spec)
                /\ pc' = "save"
    /\ UNCHANGED <<pureVars, checkVars, saveVars, envVars, input, loaded, is_valid, cacheAtStart,
                   savedBy, atCheck, nreq>>

ParseStep ==
    /\ pc = "fetch"
    /\ \E f \in FetchOutcomes(input.source) :
        LET p == ParseContent(f.got.doc, input.source) IN
        /\ fetched' = f.got
        /\ IF ~f.ok
           THEN /\ trace' = Append(trace, "fetch_err")
                /\ result' = ErrorOutput(f.err)
                /\ spec' = None
                /\ pc' = "done"
           ELSE IF ~p.ok
           THEN /\ trace' = trace \o <<"fetch", "parse_err">>
                /\ result' = ErrorOutput(p.err)
                /\ spec' = None
                /\ pc' = "done"
           ELSE /\ trace' = trace \o <<"fetch", "parse_ok">>
                /\ result' = result
                /\ spec' = Some(p.spec)
                /\ pc' = "save"
    /\ UNCHANGED <<pureVars, checkVars, saveVars, envVars, cacheFile, input, loaded, is_valid, cacheAtStart,
                   savedBy, atCheck, nreq>>

\* parse.rs 170-216: the cache record is built and saved when a project
\* directory was given (a failed save is ignored), then the answer is built.
SaveStep ==
    /\ pc = "save"
    /\ IF input.project_dir # None
       THEN \E saved \in BOOLEAN :
            LET cache == CreateCacheWithHeaders(spec[1], input.source,
                            input.ttl_seconds, Some(fetched.headers), now)
            IN
            /\ trace' = Append(trace, IF saved THEN "save_cache" ELSE "save_cache_err")
            /\ cacheFile' = IF saved THEN Some(ToStringPretty(cache)) ELSE cacheFile
            /\ savedBy' = IF saved
                          THEN Some([source |-> input.source, mtime |-> fetched.mtime])
                          ELSE savedBy
       ELSE UNCHANGED <<trace, cacheFile, savedBy>>
    /\ result' = ParsedOutput(spec[1])
    /\ pc' = "done"
    /\ UNCHANGED <<pureVars, checkVars, saveVars, envVars, input, loaded, is_valid, fetched, spec,
                   cacheAtStart, atCheck, nreq>>

\* The answer is handed to the protocol adapter; the server waits again.
Deliver ==
    /\ pc = "done"
    /\ pc' = "idle"
    /\ input' = NoInput
    /\ loaded' = None
    /\ is_valid' = None
    /\ fetched' = NoFetch
    /\ spec' = None
    /\ result' = NoOutput
    /\ trace' = <<>>
    /\ cacheAtStart' = cacheFile
    /\ atCheck' = NotChecked
    /\ UNCHANGED <<pureVars, checkVars, saveVars, envVars, cacheFile, savedBy, nreq>>

ParseInit ==
    /\ now = 0
    /\ file = [exists |-> TRUE, mtime |-> 0, doc |-> "docA"]
    /\ remote \in [ver : {1}, etag : BOOLEAN, lm : BOOLEAN]
    /\ cacheFile \in InitCacheFiles
    /\ pc = "idle"
    /\ input = NoInput
    /\ loaded = None
    /\ is_valid = None
    /\ fetched = NoFetch
    /\ spec = None
    /\ result = NoOutput
    /\ trace = <<>>
    /\ cacheAtStart = cacheFile
    /\ savedBy = None
    /\ atCheck = NotChecked
    /\ nreq = 0

\* The parse group at rest, for the specifications that do not use it.
ParseQuiet ==
    /\ ParseInit
    /\ remote = [ver |-> 1, etag |-> TRUE, lm |-> TRUE]
    /\ cacheFile = None

-----------------------------------------------------------------------------
(* CacheManager::save_cache and load_cache as file-system steps.  The      *)
(* project directory holds two names, the cache file and its temporary     *)
(* neighbour; a name points at an inode, and an open file descriptor keeps *)
(* pointing at its inode after the name has moved.  Each std::fs call is   *)
(* one step: fs::write is an open (create or truncate) and a write of the  *)
(* whole text at offset 0, fs::rename moves the temporary name onto the    *)
(* final one, fs::read_to_string is an open and a read of the whole text.  *)

Writers == {1, 2}

\* The record each save_cache call was handed.
SaveRecord(w) ==
    IF w = 1
    THEN CreateCacheWithHeaders(ParseContent("docA", RemoteSrc).spec, RemoteSrc,
            None, Some([etag |-> Some(<<"etag", 1>>), last_modified |-> None]), 0)
    ELSE CreateCacheWithHeaders(ParseContent("docB", LocalSrc).spec, LocalSrc,
            None, Some(NoHeaders), 0)

\* The record an earlier, finished save_cache call left behind.
OldRecord ==
    CreateCacheWithHeaders(ParseContent("docA", LocalSrc).spec, LocalSrc,
        Some(1), Some(NoHeaders), 0)

\* write(2) of text at offset 0 of a file opened without O_APPEND: what lay
\* beyond the written text stays.
Overwrite(old, text) == text \o SubSeq(old, Len(text) + 1, Len(old))

NoCache == FromStr(<<>>).cache

SaveInit ==
    /\ \/ dirFinal = 0 /\ inodes = <<>>
       \/ dirFinal = 1 /\ inodes = <<ToStringPretty(OldRecord)>>
    /\ dirTmp = 0
    /\ writers = [w \in Writers |-> [pc |-> "start", fd |-> 0, res |-> "none"]]
    /\ reader = [pc |-> "idle", fd |-> 0, res |-> "none", cache |-> NoCache]
    /\ nloads = 0

\* The save group at rest, for the specifications that do not use it.
SaveQuiet ==
    /\ SaveInit
    /\ dirFinal = 0

\* cache.rs 59, first half: File::create(temp_path) creates or truncates.
WOpen(w) ==
    /\ writers[w].pc = "start"
    /\ IF dirTmp = 0
       THEN /\ inodes' = Append(inodes, <<>>)
            /\ dirTmp' = Len(inodes) + 1
       ELSE /\ inodes' = [inodes EXCEPT ![dirTmp] = <<>>]
            /\ dirTmp' = dirTmp
    /\ writers' = [writers EXCEPT ![w] = [pc |-> "opened", fd |-> dirTmp', res |-> "none"]]
    /\ UNCHANGED <<pureVars, checkVars, parseVars, dirFinal, reader, nloads>>

\* cache.rs 59, second half: write_all(content) and close.
WWrite(w) ==
    /\ writers[w].pc = "opened"
    /\ inodes' = [inodes EXCEPT ![writers[w].fd] =
                    Overwrite(@, ToStringPretty(SaveRecord(w)))]
    /\ writers' = [writers EXCEPT ![w].pc = "written"]
    /\ UNCHANGED <<pureVars, checkVars, parseVars, dirFinal, dirTmp, reader, nloads>>

\* cache.rs 62-65: fs::rename(temp_path, path); it fails when the temporary
\* name is gone.
WRename(w) ==
    /\ writers[w].pc = "written"
    /\ IF dirTmp # 0
       THEN /\ dirFinal' = dirTmp
            /\ dirTmp' = 0
            /\ writers' = [writers EXCEPT ![w].pc = "done", ![w].res = "Ok"]
       ELSE /\ UNCHANGED <<dirFinal, dirTmp>>
            /\ writers' = [writers EXCEPT ![w].pc = "done",
                                          ![w].res = "CacheWriteFailed"]
    /\ UNCHANGED <<pureVars, checkVars, parseVars, inodes, reader, nloads>>

\* cache.rs 36-38, first half: read_to_string opens the cache file.
ROpen ==
    /\ reader.pc = "idle"
    /\ nloads < MaxLoads
    /\ nloads' = nloads + 1
    /\ IF dirFinal = 0
       THEN reader' = [pc |-> "done", fd |-> 0, res |-> "CacheNotFound",
                       cache |-> NoCache]
       ELSE reader' = [pc |-> "opened", fd |-> dirFinal, res |-> "none",
                       cache |-> NoCache]
    /\ UNCHANGED <<pureVars, checkVars, parseVars, dirFinal, dirTmp, inodes, writers>>

\* cache.rs 37-41: the text is read and deserialized.
RRead ==
    /\ reader.pc = "opened"
    /\ LET r == FromStr(inodes[reader.fd]) IN
       reader' = [pc |-> "done", fd |-> 0,
                  res |-> IF r.ok THEN "Ok" ELSE "CacheCorrupted",
                  cache |-> r.cache]
    /\ UNCHANGED <<pureVars, checkVars, parseVars, dirFinal, dirTmp, inodes, writers, nloads>>

\* load_cache has returned; the caller may call it again.
RReturn ==
    /\ reader.pc = "done"
    /\ reader' = [pc |-> "idle", fd |-> 0, res |-> "none", cache |-> NoCache]
    /\ UNCHANGED <<pureVars, checkVars, parseVars, dirFinal, dirTmp, inodes, writers, nloads>>

SaveNext ==
    \/ \E w \in Writers : WOpen(w)
    \/ \E w \in Writers : WWrite(w)
    \/ \E w \in Writers : WRename(w)
    \/ ROpen
    \/ RRead
    \/ RReturn

-----------------------------------------------------------------------------
(* The content model (types/openapi.rs) as far as the graph and the diff   *)
(* read it.  A HashMap is a function whose DOMAIN is its key set; a Vec    *)
(* the parser sorts and dedups (refs, schema_refs) is a set; a hash is the *)
(* digest of the raw JSON object, which holds the fields below and a rest  *)
(* (descriptions, types, ...) written rev.                                 *)

SchemaNames == {"User", "Post", "Comment"}
UnknownSchema == "Ghost"

\* Endpoint::key: "{method}:{path}", method in lower case
EndpointKey(method, path) ==
    IF path = "/users"
    THEN (IF method = "get" THEN "get:/users" ELSE "post:/users")
    ELSE IF path = "/posts"
    THEN (IF method = "get" THEN "get:/posts" ELSE "post:/posts")
    ELSE (IF method = "get" THEN "get:/ghost" ELSE "post:/ghost")

\* The operations a document may hold: two methods of one path.
Operations == {[method |-> "get", path |-> "/users"],
               [method |-> "post", path |-> "/users"]}
PathKeys == {EndpointKey(op.method, op.path) : op \in Operations}
OperationOf(key) == CHOOSE op \in Operations : EndpointKey(op.method, op.path) = key
UnknownPath == EndpointKey("get", "/ghost")

Parameter(name, required) == [name |-> name, required |-> required]

Endpoint(op, parameters, request_body, responses, schema_refs, rev) ==
    [path |-> op.path, method |-> op.method, parameters |-> parameters,
     request_body |-> request_body, responses |-> responses,
     hash |-> ComputeHash(<<parameters, request_body, responses, schema_refs, rev>>),
     schema_refs |-> schema_refs]

Schema(name, refs, rev) ==
    [name |-> name, refs |-> refs, hash |-> ComputeHash(<<refs, rev>>)]

ParsedSpec(endpoints, schemas) == [endpoints |-> endpoints, schemas |-> schemas]

-----------------------------------------------------------------------------
(* DependencyGraph (types/graph.rs): four maps from a name to a set of     *)
(* names.  A loop over a HashSet visits its elements in an order the       *)
(* program does not fix; the operators below take one such order.          *)

\* HashMap::get under `if let Some(..)`: nothing when the key is absent
Get(map, key) == IF key \in DOMAIN map THEN map[key] ELSE {}

\* map.entry(key).or_default().insert(value)
EntryInsert(map, key, value) ==
    [k \in DOMAIN map \cup {key} |->
        IF k = key THEN Get(map, key) \cup {value} ELSE map[k]]

EmptyMap == [k \in {} |-> {}]

\* DependencyGraph::new
NewGraph ==
    [schema_to_paths |-> EmptyMap, path_to_schemas |-> EmptyMap,
     schema_to_schemas |-> EmptyMap, schema_refs |-> EmptyMap]

AddPathSchemaDep(g, path, schema) ==
    [g EXCEPT !.path_to_schemas = EntryInsert(@, path, schema),
              !.schema_to_paths = EntryInsert(@, schema, path)]

\* add_schema_schema_dep with the reverse insert left out
AddSchemaSchemaDepForwardOnly(g, from_schema, to_schema) ==
    [g EXCEPT !.schema_to_schemas = EntryInsert(@, from_schema, to_schema)]

AddSchemaSchemaDep(g, from_schema, to_schema) ==
    [g EXCEPT !.schema_to_schemas = EntryInsert(@, from_schema, to_schema),
              !.schema_refs = EntryInsert(@, to_schema, from_schema)]

\* get_affected_paths without the walk over schema_refs
GetAffectedPathsDirectOnly(g, schema) == Get(g.schema_to_paths, schema)

RECURSIVE CollectAffectedPathsRecursive(_, _, _)
RECURSIVE AffectedPathsLoop(_, _, _)

\* st = [affected, visited], the two &mut HashSet arguments
CollectAffectedPathsRecursive(g, schema, st) ==
    IF schema \in st.visited
    THEN st
    ELSE AffectedPathsLoop(g, Get(g.schema_refs, schema),
             [affected |-> st.affected \cup Get(g.schema_to_paths, schema),
              visited |-> st.visited \cup {schema}])

\* for ref_schema in refs { self.collect_affected_paths_recursive(..) }
AffectedPathsLoop(g, refs, st) ==
    IF refs = {}
    THEN st
    ELSE LET ref_schema == CHOOSE r \in refs : TRUE
         IN  AffectedPathsLoop(g, refs \ {ref_schema},
                 CollectAffectedPathsRecursive(g, ref_schema, st))

GetAffectedPaths(g, schema) ==
    CollectAffectedPathsRecursive(g, schema,
        [affected |-> {}, visited |-> {}]).affected

RECURSIVE CollectSchemaDepsRecursive(_, _, _)
RECURSIVE SchemaDepsLoop(_, _, _)

\* st = [collected, visited]
CollectSchemaDepsRecursive(g, schema, st) ==
    IF schema \in st.visited
    THEN st
    ELSE SchemaDepsLoop(g, Get(g.schema_to_schemas, schema),
             [collected |-> st.collected \cup {schema},
              visited |-> st.visited \cup {schema}])

SchemaDepsLoop(g, deps, st) ==
    IF deps = {}
    THEN st
    ELSE LET dep == CHOOSE d \in deps : TRUE
         IN  SchemaDepsLoop(g, deps \ {dep},
                 CollectSchemaDepsRecursive(g, dep, st))

RECURSIVE PathSchemasLoop(_, _, _)

\* for schema in direct { collect_schema_deps_recursive(schema, &mut schemas,
\* &mut HashSet::new()) }: one collected set, a fresh visited set per schema
PathSchemasLoop(g, direct, schemas) ==
    IF direct = {}
    THEN schemas
    ELSE LET schema == CHOOSE s \in direct : TRUE
         IN  PathSchemasLoop(g, direct \ {schema},
                 CollectSchemaDepsRecursive(g, schema,
                     [collected |-> schemas, visited |-> {}]).collected)

\* get_path_schemas returning the endpoint's direct schema set only
GetPathSchemasDirectOnly(g, path) == Get(g.path_to_schemas, path)

GetPathSchemas(g, path) == PathSchemasLoop(g, Get(g.path_to_schemas, path), {})

RECURSIVE CollectSchemaDependentsRecursive(_, _, _)
RECURSIVE SchemaDependentsLoop(_, _, _)

\* st = [dependents, visited]
CollectSchemaDependentsRecursive(g, schema, st) ==
    IF schema \in st.visited
    THEN st
    ELSE SchemaDependentsLoop(g, Get(g.schema_refs, schema),
             [dependents |-> st.dependents,
              visited |-> st.visited \cup {schema}])

SchemaDependentsLoop(g, refs, st) ==
    IF refs = {}
    THEN st
    ELSE LET ref_schema == CHOOSE r \in refs : TRUE
         IN  SchemaDependentsLoop(g, refs \ {ref_schema},
                 CollectSchemaDependentsRecursive(g, ref_schema,
                     [dependents |-> st.dependents \cup {ref_schema},
                      visited |-> st.visited]))

\* get_schema_dependents counting the schema asked about among its dependents
GetSchemaDependentsWithSelf(g, schema) ==
    {schema} \cup CollectSchemaDependentsRecursive(g, schema,
                      [dependents |-> {}, visited |-> {}]).dependents

\* get_schema_dependents stopping after the direct referrers
GetSchemaDependentsDirectOnly(g, schema) == Get(g.schema_refs, schema)

GetSchemaDependents(g, schema) ==
    CollectSchemaDependentsRecursive(g, schema,
        [dependents |-> {}, visited |-> {}]).dependents

Directions == {"Downstream", "Upstream", "Both"}

DependencyQueryResult(target, is_schema, direction, affected_paths, affected_schemas) ==
    [target |-> target, is_schema |-> is_schema, direction |-> direction,
     affected_paths |-> affected_paths, affected_schemas |-> affected_schemas,
     dependency_chain |-> <<>>]

\* the Upstream arm walking the forward references transitively
QueryUpstreamTransitive(g, target) ==
    UNION {CollectSchemaDepsRecursive(g, dep,
               [collected |-> {}, visited |-> {}]).collected :
           dep \in Get(g.schema_to_schemas, target)}

\* graph.rs 183-185: if let Some(deps) = self.schema_to_schemas.get(target)
QueryUpstream(g, target) == Get(g.schema_to_schemas, target)

Query(g, target, direction, is_schema) ==
    IF is_schema
    THEN IF direction = "Downstream"
         THEN DependencyQueryResult(target, is_schema, direction,
                  GetAffectedPaths(g, target), GetSchemaDependents(g, target))
         ELSE IF direction = "Upstream"
         THEN DependencyQueryResult(target, is_schema, direction,
                  {}, QueryUpstream(g, target))
         ELSE DependencyQueryResult(target, is_schema, direction,
                  GetAffectedPaths(g, target),
                  GetSchemaDependents(g, target) \cup QueryUpstream(g, target))
    ELSE DependencyQueryResult(target, is_schema, direction,
             {}, GetPathSchemas(g, target))

RECURSIVE SumLen(_, _)
\* map.values().map(|v| v.len()).sum()
SumLen(map, keys) ==
    IF keys = {}
    THEN 0
    ELSE LET k == CHOOSE x \in keys : TRUE
         IN  Cardinality(map[k]) + SumLen(map, keys \ {k})

GraphStats(g) ==
    [total_schemas |-> Cardinality(DOMAIN g.schema_to_paths),
     total_paths |-> Cardinality(DOMAIN g.path_to_schemas),
     schema_to_path_edges |-> SumLen(g.schema_to_paths, DOMAIN g.schema_to_paths),
     schema_to_schema_edges |-> SumLen(g.schema_to_schemas, DOMAIN g.schema_to_schemas)]

-----------------------------------------------------------------------------
(* GraphBuilder::build (services/graph.rs) *)

RECURSIVE AddSchemaDeps(_, _)
\* for (name, schema) in &spec.schemas { for ref_name in &schema.refs {..} }
AddSchemaDeps(g, pairs) ==
    IF pairs = {}
    THEN g
    ELSE LET p == CHOOSE x \in pairs : TRUE
         IN  AddSchemaDeps(AddSchemaSchemaDep(g, p[1], p[2]), pairs \ {p})

RECURSIVE AddPathDeps(_, _)
\* for (key, endpoint) in &spec.endpoints { for schema_ref in .. {..} }
AddPathDeps(g, pairs) ==
    IF pairs = {}
    THEN g
    ELSE LET p == CHOOSE x \in pairs : TRUE
         IN  AddPathDeps(AddPathSchemaDep(g, p[1], p[2]), pairs \ {p})

SchemaEdges(s) ==
    UNION {{<<name, ref_name>> : ref_name \in s.schemas[name].refs} :
               name \in DOMAIN s.schemas}

PathEdges(s) ==
    UNION {{<<key, schema_ref>> : schema_ref \in s.endpoints[key].schema_refs} :
               key \in DOMAIN s.endpoints}

Build(s) == AddPathDeps(AddSchemaDeps(NewGraph, SchemaEdges(s)), PathEdges(s))

-----------------------------------------------------------------------------
(* SpecGraph: a graph is built from a parsed document and asked one        *)
(* question, as tools/deps.rs does for every request (84-100).  Init draws *)
(* the document; each action is one call.                                  *)

\* The documents: any schemas among SchemaNames referring to one another,
\* any endpoints among PathKeys using them, up to the edge bounds.
RefMaps(D) ==
    {m \in [D -> SUBSET D] :
        SumLen(m, D) <= MaxSchemaEdges}

UseMaps(K, D) ==
    {m \in [K -> SUBSET D] :
        SumLen(m, K) <= MaxPathEdges}

GraphSpec(refs, uses) ==
    ParsedSpec([key \in DOMAIN uses |-> Endpoint(OperationOf(key), {}, None, {"200"}, uses[key], 1)],
               [name \in DOMAIN refs |-> Schema(name, refs[name], 1)])

GraphSpecs ==
    UNION {{GraphSpec(refs, uses) : refs \in RefMaps(D), uses \in UseMaps(K, D)} :
               D \in SUBSET SchemaNames, K \in SUBSET PathKeys}

Targets == SchemaNames \cup PathKeys \cup {UnknownSchema, UnknownPath}

NoCall == [fn |-> "new", target |-> "", direction |-> "", is_schema |-> FALSE]
NoRet == [paths |-> {}, schemas |-> {}, stats |-> GraphStats(NewGraph)]

GraphInit ==
    /\ gspec \in GraphSpecs
    /\ graph = NewGraph
    /\ gcall = NoCall
    /\ gret = NoRet

GraphQuiet ==
    /\ gspec = ParsedSpec(EmptyMap, EmptyMap)
    /\ graph = NewGraph
    /\ gcall = NoCall
    /\ gret = NoRet

\* services/graph.rs 10-28
CallBuild ==
    /\ gcall.fn = "new"
    /\ graph' = Build(gspec)
    /\ gcall' = [NoCall EXCEPT !.fn = "build"]
    /\ UNCHANGED <<ioVars, walkVars, diffVars, parserVars, pageVars, gspec, gret>>

CallGetAffectedPaths ==
    /\ gcall.fn \in {"build", "add"}
    /\ \E target \in Targets :
        /\ gcall' = [NoCall EXCEPT !.fn = "get_affected_paths", !.target = target]
        /\ gret' = [NoRet EXCEPT !.paths = GetAffectedPaths(graph, target)]
    /\ UNCHANGED <<ioVars, walkVars, diffVars, parserVars, pageVars, gspec, graph>>

CallGetPathSchemas ==
    /\ gcall.fn \in {"build", "add"}
    /\ \E target \in Targets :
        /\ gcall' = [NoCall EXCEPT !.fn = "get_path_schemas", !.target = target]
        /\ gret' = [NoRet EXCEPT !.schemas = GetPathSchemas(graph, target)]
    /\ UNCHANGED <<ioVars, walkVars, diffVars, parserVars, pageVars, gspec, graph>>

CallGetSchemaDependents ==
    /\ gcall.fn \in {"build", "add"}
    /\ \E target \in Targets :
        /\ gcall' = [NoCall EXCEPT !.fn = "get_schema_dependents", !.target = target]
        /\ gret' = [NoRet EXCEPT !.schemas = GetSchemaDependents(graph, target)]
    /\ UNCHANGED <<ioVars, walkVars, diffVars, parserVars, pageVars, gspec, graph>>

CallQuery ==
    /\ gcall.fn \in {"build", "add"}
    /\ \E target \in Targets, direction \in Directions, is_schema \in BOOLEAN :
        /\ gcall' = [fn |-> "query", target |-> target, direction |-> direction,
                     is_schema |-> is_schema]
        /\ LET r == Query(graph, target, direction, is_schema)
           IN  gret' = [NoRet EXCEPT !.paths = r.affected_paths,
                                     !.schemas = r.affected_schemas]
    /\ UNCHANGED <<ioVars, walkVars, diffVars, parserVars, pageVars, gspec, graph>>

CallStats ==
    /\ gcall.fn \in {"build", "add"}
    /\ gcall' = [NoCall EXCEPT !.fn = "stats"]
    /\ gret' = [NoRet EXCEPT !.stats = GraphStats(graph)]
    /\ UNCHANGED <<ioVars, walkVars, diffVars, parserVars, pageVars, gspec, graph>>

GraphNext ==
    \/ CallBuild
    \/ CallGetAffectedPaths
    \/ CallGetPathSchemas
    \/ CallGetSchemaDependents
    \/ CallQuery
    \/ CallStats

-----------------------------------------------------------------------------
(* SpecAdd: a graph filled edge by edge through the two add operations, in *)
(* any order and with any names, and then asked one question.              *)

AddInit == GraphQuiet

\* types/graph.rs 57-67
CallAddSchemaSchemaDep ==
    /\ gcall.fn \in {"new", "add"}
    /\ GraphStats(graph).schema_to_schema_edges < MaxSchemaEdges
    /\ \E from_schema \in SchemaNames, to_schema \in SchemaNames :
        graph' = AddSchemaSchemaDep(graph, from_schema, to_schema)
    /\ gcall' = [NoCall EXCEPT !.fn = "add"]
    /\ UNCHANGED <<ioVars, walkVars, diffVars, parserVars, pageVars, gspec, gret>>

\* types/graph.rs 44-54
CallAddPathSchemaDep ==
    /\ gcall.fn \in {"new", "add"}
    /\ GraphStats(graph).schema_to_path_edges < MaxPathEdges
    /\ \E path \in PathKeys, schema \in SchemaNames :
        graph' = AddPathSchemaDep(graph, path, schema)
    /\ gcall' = [NoCall EXCEPT !.fn = "add"]
    /\ UNCHANGED <<ioVars, walkVars, diffVars, parserVars, pageVars, gspec, gret>>

AddNext ==
    \/ CallAddSchemaSchemaDep
    \/ CallAddPathSchemaDep
    \/ CallGetAffectedPaths
    \/ CallGetPathSchemas
    \/ CallGetSchemaDependents
    \/ CallQuery
    \/ CallStats

-----------------------------------------------------------------------------
(* SpecWalk: the three recursive traversals of types/graph.rs run call by  *)
(* call.  wstack is the call stack: one frame per activation that passed   *)
(* the visited check, holding the schema and the elements its `for` loop   *)
(* has still to visit; the frame of get_path_schemas's own loop is marked  *)
(* outer.  The loop takes the elements of a HashSet in any order.          *)

WalkFns == {"get_affected_paths", "get_path_schemas", "get_schema_dependents"}

Frame(schema, rem, outer) == [schema |-> schema, rem |-> rem, outer |-> outer]

\* the set the activation's loop runs over
LoopSet(g, fn, schema) ==
    IF fn = "get_path_schemas"
    THEN Get(g.schema_to_schemas, schema)
    ELSE Get(g.schema_refs, schema)

\* what an activation adds to the result once past the visited check
Collected(g, fn, schema) ==
    IF fn = "get_affected_paths" THEN Get(g.schema_to_paths, schema)
    ELSE IF fn = "get_path_schemas" THEN {schema}
    ELSE {}

\* One activation's entry: return at once on a visited schema, else mark
\* it, collect, and start the loop.
Enter(g, fn, schema, stack, visited, acc) ==
    IF schema \in visited
    THEN [stack |-> stack, visited |-> visited, acc |-> acc]
    ELSE [stack |-> Append(stack, Frame(schema, LoopSet(g, fn, schema), FALSE)),
          visited |-> visited \cup {schema},
          acc |-> acc \cup Collected(g, fn, schema)]

WalkQuiet ==
    /\ wpc = "idle"
    /\ wcall = [fn |-> "none", target |-> ""]
    /\ wstack = <<>>
    /\ wvisited = {}
    /\ wacc = {}

WalkInit ==
    /\ gspec \in GraphSpecs
    /\ graph = Build(gspec)
    /\ gcall = [NoCall EXCEPT !.fn = "build"]
    /\ gret = NoRet
    /\ WalkQuiet

\* graph.rs 70-75, 102-112, 135-139: the public function's own body
WalkStart ==
    /\ wpc = "idle"
    /\ \E fn \in WalkFns, target \in Targets :
        /\ wcall' = [fn |-> fn, target |-> target]
        /\ LET e == IF fn = "get_path_schemas"
                    THEN [stack |-> <<Frame(target, Get(graph.path_to_schemas, target), TRUE)>>,
                          visited |-> {}, acc |-> {}]
                    ELSE Enter(graph, fn, target, <<>>, {}, {})
           IN  /\ wstack' = e.stack
               /\ wvisited' = e.visited
               /\ wacc' = e.acc
    /\ wpc' = "running"
    /\ UNCHANGED <<ioVars, graphVars, diffVars, parserVars, pageVars>>

\* the recursive call made without looking at the visited set; the stack
\* is cut at MaxDepth frames
WalkCallUnchecked ==
    /\ wpc = "running"
    /\ Len(wstack) > 0
    /\ Len(wstack) < MaxDepth
    /\ LET top == wstack[Len(wstack)]
       IN  \E r \in top.rem :
            /\ wstack' = Append([wstack EXCEPT ![Len(wstack)].rem = top.rem \ {r}],
                                Frame(r, LoopSet(graph, wcall.fn, r), FALSE))
            /\ wvisited' = wvisited \cup {r}
            /\ wacc' = wacc \cup Collected(graph, wcall.fn, r)
                            \cup (IF wcall.fn = "get_schema_dependents" THEN {r} ELSE {})
    /\ UNCHANGED <<ioVars, graphVars, diffVars, parserVars, pageVars, wpc, wcall>>

\* graph.rs 94-98, 105-109, 127-131, 152-157: the loop takes its next
\* element and makes the recursive call
WalkCall ==
    /\ wpc = "running"
    /\ Len(wstack) > 0
    /\ LET top == wstack[Len(wstack)]
       IN  \E r \in top.rem :
            LET e == Enter(graph, wcall.fn, r,
                           [wstack EXCEPT ![Len(wstack)].rem = top.rem \ {r}],
                           IF top.outer THEN {} ELSE wvisited,
                           IF wcall.fn = "get_schema_dependents"
                           THEN wacc \cup {r} ELSE wacc)
            IN  /\ wstack' = e.stack
                /\ wvisited' = e.visited
                /\ wacc' = e.acc
    /\ UNCHANGED <<ioVars, graphVars, diffVars, parserVars, pageVars, wpc, wcall>>

\* the loop is over: the activation returns to its caller
WalkReturn ==
    /\ wpc = "running"
    /\ Len(wstack) > 0
    /\ wstack[Len(wstack)].rem = {}
    /\ wstack' = SubSeq(wstack, 1, Len(wstack) - 1)
    /\ wpc' = IF Len(wstack) = 1 THEN "done" ELSE "running"
    /\ UNCHANGED <<ioVars, graphVars, diffVars, parserVars, pageVars, wcall, wvisited, wacc>>

WalkNext ==
    \/ WalkStart
    \/ WalkCall
    \/ WalkReturn

\* what the function called returns, as the operators compute it
WalkAnswer ==
    IF wcall.fn = "get_affected_paths" THEN GetAffectedPaths(graph, wcall.target)
    ELSE IF wcall.fn = "get_path_schemas" THEN GetPathSchemas(graph, wcall.target)
    ELSE GetSchemaDependents(graph, wcall.target)

-----------------------------------------------------------------------------
(* DiffEngine (services/diff.rs).  A String built by format! is the        *)
(* sequence of its pieces.  A Vec filled by a loop over a HashMap or a     *)
(* HashSet comes in an order the program does not fix: the lists of a      *)
(* SpecDiff are bags (what was pushed and how often), the change notes of  *)
(* one entry are a set.  operation_id and tags are copied through and left *)
(* out.                                                                    *)

\* the bag holding F(k) once for every k of S
BagOf(S, F(_)) ==
    LET img == {F(k) : k \in S}
    IN  [e \in img |-> Cardinality({k \in S : F(k) = e})]

Note(text, name) == <<text, name>>

ChangeType(tag, changes) == [tag |-> tag, changes |-> changes]

\* diff.rs 264-285
CompareSchemaDetails(old, new) ==
    LET changes ==
            {Note("Added reference to ", added) : added \in new.refs \ old.refs}
            \cup {Note("Removed reference to ", removed) : removed \in old.refs \ new.refs}
    IN  IF changes = {} THEN {Note("Schema definition changed", "")} ELSE changes

\* two schemas told apart by their reference lists
SchemaRefsDiffer(old, new) == old.refs # new.refs

\* diff.rs 252: old_schema.hash != new_schema.hash
SchemaHashDiffers(old, new) == old.hash # new.hash

\* diff.rs 228-261
CompareSchemas(old_spec, new_spec) ==
    LET old_names == DOMAIN old_spec.schemas
        new_names == DOMAIN new_spec.schemas
    IN  [name \in old_names \cup new_names |->
            IF name \notin old_names THEN ChangeType("Added", {})
            ELSE IF name \notin new_names THEN ChangeType("Removed", {})
            ELSE IF SchemaHashDiffers(old_spec.schemas[name], new_spec.schemas[name])
            THEN ChangeType("Modified",
                     CompareSchemaDetails(old_spec.schemas[name], new_spec.schemas[name]))
            ELSE ChangeType("Unchanged", {})]

\* the quick check left out
EndpointHashNeverEqual(old, new) == FALSE

\* diff.rs 292: old.hash == new.hash
EndpointHashEqual(old, new) == old.hash = new.hash

\* diff.rs 288-350
CompareEndpoints(old, new) ==
    IF EndpointHashEqual(old, new)
    THEN {}
    ELSE
    LET old_params == {p.name : p \in old.parameters}
        new_params == {p.name : p \in new.parameters}
        params ==
            {Note("Added required parameter: ", p.name) :
                 p \in {q \in new.parameters : q.name \notin old_params /\ q.required}}
            \cup {Note("Removed parameter: ", name) : name \in old_params \ new_params}
        body ==
            IF old.request_body = None /\ new.request_body # None
            THEN {Note("Added request body", "")}
            ELSE IF old.request_body # None /\ new.request_body = None
            THEN {Note("Removed request body", "")}
            ELSE IF old.request_body # None /\ new.request_body # None
                    /\ old.request_body[1].schema_ref # new.request_body[1].schema_ref
            THEN {Note("Request body schema changed", "")}
            ELSE {}
        responses ==
            {Note("Added response: ", status) : status \in new.responses \ old.responses}
            \cup {Note("Removed response: ", status) : status \in old.responses \ new.responses}
        changes == params \cup body \cup responses
    IN  IF changes = {} THEN {Note("Endpoint definition changed", "")} ELSE changes

SchemaChange(name, changes, affected_endpoints) ==
    [name |-> name, changes |-> changes, affected_endpoints |-> affected_endpoints]

EndpointChange(key, endpoint, changes, affected_by_schemas) ==
    [key |-> key, path |-> endpoint.path, method |-> endpoint.method,
     changes |-> changes, affected_by_schemas |-> affected_by_schemas]

BreakingChange(category, message, location) ==
    [category |-> category, message |-> message, location |-> location]

\* the removal logged under the endpoint's key instead of its path
EndpointRemovedAtKey(key, endpoint) ==
    BreakingChange("EndpointRemoved", <<"Endpoint '", key, "' was removed">>, <<key>>)

\* diff.rs 177-181
EndpointRemoved(key, endpoint) ==
    BreakingChange("EndpointRemoved", <<"Endpoint '", key, "' was removed">>,
                   <<endpoint.path>>)

\* diff.rs 124-128
SchemaRemoved(name) ==
    BreakingChange("SchemaRemoved", <<"Schema '", name, "' was removed">>,
                   <<"#/components/schemas/", name>>)

BreakingChangeCategories ==
    {"EndpointRemoved", "ParameterAdded", "ParameterTypeChanged", "ResponseTypeChanged",
     "SchemaRemoved", "SchemaFieldRemoved", "SchemaFieldTypeChanged"}

\* the filter left out: no endpoint is touched by a schema change
AffectedSchemasNone(endpoint, schema_changes) == {}

\* diff.rs 193-202: the names in the new endpoint's schema_refs that the
\* schema comparison classified Modified
AffectedSchemas(endpoint, schema_changes) ==
    {s \in endpoint.schema_refs :
        s \in DOMAIN schema_changes /\ schema_changes[s].tag = "Modified"}

\* diff.rs 71-225.  g: Option<&DependencyGraph>
Diff(old_spec, new_spec, g) ==
    LET schema_changes == CompareSchemas(old_spec, new_spec)
        Names(tag) == {n \in DOMAIN schema_changes : schema_changes[n].tag = tag}
        \* 102-109: graph.map(|g| g.get_affected_paths(name)).unwrap_or_default()
        Affected(name) == IF g = None THEN {} ELSE GetAffectedPaths(g[1], name)
        \* 136-144: built, and read by nothing below
        schema_affected_endpoints ==
            IF g = None THEN {}
            ELSE UNION {GetAffectedPaths(g[1], name) : name \in Names("Modified")}
        old_keys == DOMAIN old_spec.endpoints
        new_keys == DOMAIN new_spec.endpoints
        \* 190
        DirectChanges(key) ==
            CompareEndpoints(old_spec.endpoints[key], new_spec.endpoints[key])
        \* 193-202
        AffectedBy(key) == AffectedSchemas(new_spec.endpoints[key], schema_changes)
        \* 204
        IsModified(key) == DirectChanges(key) # {} \/ AffectedBy(key) # {}
        both == old_keys \cap new_keys
    IN  [added_endpoints |-> BagOf(new_keys \ old_keys,
             LAMBDA key : EndpointChange(key, new_spec.endpoints[key],
                                         {Note("New endpoint", "")}, {})),
         modified_endpoints |-> BagOf({key \in both : IsModified(key)},
             LAMBDA key : EndpointChange(key, new_spec.endpoints[key],
                 DirectChanges(key)
                 \cup {Note("Affected by schema change: ", s) : s \in AffectedBy(key)},
                 AffectedBy(key))),
         removed_endpoints |-> BagOf(old_keys \ new_keys,
             LAMBDA key : EndpointChange(key, old_spec.endpoints[key],
                                         {Note("Endpoint removed", "")}, {})),
         unchanged_endpoints |-> Cardinality({key \in both : ~IsModified(key)}),
         added_schemas |-> BagOf(Names("Added"),
             LAMBDA name : SchemaChange(name, {Note("New schema", "")}, {})),
         modified_schemas |-> BagOf(Names("Modified"),
             LAMBDA name : SchemaChange(name, schema_changes[name].changes, Affected(name))),
         removed_schemas |-> BagOf(Names("Removed"),
             LAMBDA name : SchemaChange(name, {Note("Schema removed", "")}, {})),
         unchanged_schemas |-> Cardinality(Names("Unchanged")),
         breaking_changes |->
             BagOf(Names("Removed"), SchemaRemoved)
             (+) BagOf(old_keys \ new_keys,
                 LAMBDA key : EndpointRemoved(key, old_spec.endpoints[key]))]

NoDiff == Diff(ParsedSpec(EmptyMap, EmptyMap), ParsedSpec(EmptyMap, EmptyMap), None)

\* tools/diff.rs 82-91
DiffSummary(diff) ==
    [added_endpoints |-> BagCardinality(diff.added_endpoints),
     modified_endpoints |-> BagCardinality(diff.modified_endpoints),
     removed_endpoints |-> BagCardinality(diff.removed_endpoints),
     added_schemas |-> BagCardinality(diff.added_schemas),
     modified_schemas |-> BagCardinality(diff.modified_schemas),
     removed_schemas |-> BagCardinality(diff.removed_schemas),
     breaking_changes |-> BagCardinality(diff.breaking_changes),
     has_breaking_changes |-> diff.breaking_changes # EmptyBag]

\* the filter left out: the whole diff is handed on
BreakingOnlyUnfiltered(diff) == diff

\* tools/diff.rs 94-105: the view for breaking_only
BreakingOnly(diff) ==
    [added_endpoints |-> EmptyBag,
     modified_endpoints |-> EmptyBag,
     removed_endpoints |-> diff.removed_endpoints,
     unchanged_endpoints |-> 0,
     added_schemas |-> EmptyBag,
     modified_schemas |-> EmptyBag,
     removed_schemas |-> diff.removed_schemas,
     unchanged_schemas |-> 0,
     breaking_changes |-> diff.breaking_changes]

\* tools/diff.rs 50-55 and 63-68
DiffFailure(which) ==
    [success |-> FALSE, summary |-> None, diff |-> None,
     error |-> Some(<<"Failed to parse ", which, " spec: ">>)]

\* tools/diff.rs 110-115
DiffSuccess(summary, diff_output) ==
    [success |-> TRUE, summary |-> Some(summary), diff |-> Some(diff_output),
     error |-> None]

NoDiffOutput == [success |-> FALSE, summary |-> None, diff |-> None, error |-> None]

-----------------------------------------------------------------------------
(* SpecDiff: two parsed documents are compared as tools/diff.rs does it,   *)
(* with the graph of the new document or with none.  Init draws the two    *)
(* documents; the action is the call.                                      *)

\* The schemas of a document: User in two revisions or referring to Post,
\* Post in two revisions; either may be absent.
DiffSchemaMaps ==
    {m \in UNION {[D -> {<<{}, 1>>, <<{}, 2>>, <<{"Post"}, 1>>}] :
                      D \in SUBSET {"User", "Post"}} :
        \A n \in DOMAIN m :
            /\ m[n][1] \subseteq DOMAIN m
            /\ n = "Post" => m[n][1] = {}}

\* The operations of a document.  GET /users: with no parameter, a required
\* one, an optional one or both, using User or nothing, in one more
\* revision that differs only in its descriptions.  POST /users: one form.
GetVariants ==
    {<<ps, refs, rev>> :
        ps \in SUBSET {Parameter("id", TRUE), Parameter("q", FALSE)},
        refs \in {{}, {"User"}}, rev \in 1..MaxRev} 

DiffEndpointMaps(schemas) ==
    {m \in UNION {[K -> GetVariants] : K \in SUBSET PathKeys} :
        \A k \in DOMAIN m :
            /\ m[k][2] \subseteq schemas
            /\ m[k][3] > 1 => m[k][1] = {}
            /\ k # EndpointKey("get", "/users") =>
                   m[k] = <<{}, {}, 1>>}

DiffSpecOf(sm, em) ==
    ParsedSpec(
        [key \in DOMAIN em |->
            Endpoint(OperationOf(key), em[key][1],
                     IF OperationOf(key).method = "post"
                     THEN Some([schema_ref |-> None]) ELSE None,
                     {"200"}, em[key][2], em[key][3])],
        [name \in DOMAIN sm |-> Schema(name, sm[name][1], sm[name][2])])

DiffSpecs ==
    UNION {{DiffSpecOf(sm, em) : em \in DiffEndpointMaps(DOMAIN sm)} :
               sm \in DiffSchemaMaps}

DiffInit ==
    /\ dOld \in DiffSpecs
    /\ dNew \in DiffSpecs
    /\ dWithGraph \in BOOLEAN
    /\ dpc = "idle"
    /\ dDiff = NoDiff
    /\ dBreakingOnly = FALSE
    /\ dOut = NoDiffOutput

DiffQuiet ==
    /\ dOld = ParsedSpec(EmptyMap, EmptyMap)
    /\ dNew = ParsedSpec(EmptyMap, EmptyMap)
    /\ dWithGraph = FALSE
    /\ dpc = "idle"
    /\ dDiff = NoDiff
    /\ dBreakingOnly = FALSE
    /\ dOut = NoDiffOutput

\* tools/diff.rs 45-116: diff_specs.  The two documents are fetched and
\* parsed (either may fail), the graph of the new one is built when asked
\* for, the diff is computed, summarised and, when asked for, filtered.
CallDiff ==
    /\ dpc = "idle"
    /\ \E breaking_only \in BOOLEAN, failed \in {"none", "old", "new"} :
        /\ dBreakingOnly' = breaking_only
        /\ IF failed # "none"
           THEN /\ dDiff' = dDiff
                /\ dOut' = DiffFailure(failed)
           ELSE LET diff == Diff(dOld, dNew,
                                IF dWithGraph THEN Some(Build(dNew)) ELSE None)
                IN  /\ dDiff' = diff
                    /\ dOut' = DiffSuccess(DiffSummary(diff),
                                   IF breaking_only THEN BreakingOnly(diff) ELSE diff)
        /\ dpc' = IF failed # "none" THEN "failed" ELSE "done"
    /\ UNCHANGED <<ioVars, graphVars, walkVars, parserVars, pageVars, dOld, dNew, dWithGraph>>

DiffNext ==
    \/ CallDiff

-----------------------------------------------------------------------------
(* OpenApiParser::parse_content past the JSON or YAML reading               *)
(* (services/parser.rs).  A version text is its sequence of characters; a   *)
(* $ref text is a sequence of pieces, one of which may be a pointer prefix. *)

JsonString(str) == [kind |-> "string", str |-> str]
\* a value that is no string, such as an unquoted 2.0 in YAML
JsonNumber == [kind |-> "number", str |-> <<>>]

\* value.get(field).and_then(|v| v.as_str())
AsStr(field) ==
    IF field # None /\ field[1].kind = "string" THEN Some(field[1].str) ELSE None

\* str::starts_with
StartsWith(str, prefix) ==
    Len(str) >= Len(prefix) /\ SubSeq(str, 1, Len(prefix)) = prefix

Detected(version) == [ok |-> TRUE, version |-> version, err |-> ""]
NotDetected(err) == [ok |-> FALSE, version |-> "", err |-> err]

\* parser.rs 144-164
DetectVersion(value) ==
    IF AsStr(value.swagger) # None /\ StartsWith(AsStr(value.swagger)[1], <<"2", ".">>)
    THEN Detected("Swagger2")
    ELSE IF AsStr(value.openapi) # None
    THEN LET openapi == AsStr(value.openapi)[1]
         IN  IF StartsWith(openapi, <<"3", ".", "0">>) THEN Detected("OpenApi30")
             ELSE IF StartsWith(openapi, <<"3", ".", "1">>) THEN Detected("OpenApi31")
             ELSE NotDetected("E204")
    ELSE NotDetected("E203")

ComponentsPrefix == "#/components/schemas/"
DefinitionsPrefix == "#/definitions/"
ExternalFile == "other.yaml"

\* str::replace(pattern, "")
Replace(text, pattern) == SelectSeq(text, LAMBDA piece : piece # pattern)

\* the String the remaining pieces make
Join(text) ==
    IF text = <<>> THEN ""
    ELSE IF Len(text) = 1 THEN text[1]
    ELSE IF text = <<ExternalFile, "User">> THEN "other.yamlUser"
    ELSE "other.yamlGhost"

\* parser.rs 856-884: every $ref text below the value, the two prefixes
\* taken out, sorted and deduplicated
ExtractRefs(ref_strs) ==
    {Join(Replace(Replace(ref_str, DefinitionsPrefix), ComponentsPrefix)) :
        ref_str \in ref_strs}

\* parser.rs 222-244
ParseSwagger2Definitions(value) ==
    [name \in DOMAIN value.definitions |->
        Schema(name, ExtractRefs(value.definitions[name]), 1)]

\* parser.rs 518-542
ParseOpenapi3Schemas(value) ==
    [name \in DOMAIN value.components_schemas |->
        Schema(name, ExtractRefs(value.components_schemas[name]), 1)]

\* parser.rs 247-271, 273-337 and 545-566, 569-632
ParsePaths(value) ==
    [key \in DOMAIN value.paths |->
        Endpoint(OperationOf(key), {}, None, {}, ExtractRefs(value.paths[key]), 1)]

ParseOk(version, parsed) ==
    [ok |-> TRUE, err |-> "", version |-> version, spec |-> parsed]
ParseErr(err) ==
    [ok |-> FALSE, err |-> err, version |-> "", spec |-> ParsedSpec(EmptyMap, EmptyMap)]

\* parser.rs 167-219
ParseSwagger2(value) ==
    IF ~value.info THEN ParseErr("E203")
    ELSE ParseOk("Swagger2",
                 ParsedSpec(ParsePaths(value), ParseSwagger2Definitions(value)))

\* parser.rs 459-515
ParseOpenapi3(value, version) ==
    IF ~value.info THEN ParseErr("E203")
    ELSE ParseOk(version, ParsedSpec(ParsePaths(value), ParseOpenapi3Schemas(value)))

\* parser.rs 131-140
ParseValue(value) ==
    LET version == DetectVersion(value)
    IN  IF ~version.ok THEN ParseErr(version.err)
        ELSE IF version.version = "Swagger2" THEN ParseSwagger2(value)
        ELSE ParseOpenapi3(value, version.version)

-----------------------------------------------------------------------------
(* SpecParser: one document value is parsed.  Init draws the value.        *)

VersionTexts ==
    {<<"2", ".", "0">>, <<"1", ".", "2">>, <<"3", ".", "0", ".", "3">>,
     <<"3", ".", "1", ".", "0">>, <<"4", ".", "0", ".", "0">>, <<"3">>}

VersionFields == {None, Some(JsonNumber)} \cup {Some(JsonString(t)) : t \in VersionTexts}

\* $ref texts: to the schema User in either notation, to a schema the
\* document does not define, and into another file
RefTexts ==
    {<<ComponentsPrefix, "User">>, <<DefinitionsPrefix, "User">>,
     <<ComponentsPrefix, UnknownSchema>>, <<ExternalFile, ComponentsPrefix, "User">>}

\* The schemas of a document: none, or User and a Post that holds at most
\* one $ref.
ValueSchemaMaps ==
    {EmptyMap}
    \cup {[name \in {"User", "Post"} |-> IF name = "Post" THEN refs ELSE {}] :
             refs \in {{}} \cup {{r} : r \in RefTexts}}

\* The operations: none, or GET /users holding at most one $ref.
ValuePathMaps ==
    {EmptyMap}
    \cup {[key \in {EndpointKey("get", "/users")} |-> refs] :
             refs \in {{}} \cup {{r} : r \in RefTexts}}

\* A document keeps its schemas under definitions or under
\* components/schemas.
Values ==
    {[swagger |-> sw, openapi |-> oa, info |-> info,
      definitions |-> IF old_place THEN schemas ELSE EmptyMap,
      components_schemas |-> IF old_place THEN EmptyMap ELSE schemas,
      paths |-> paths] :
        sw \in VersionFields, oa \in VersionFields, info \in BOOLEAN,
        old_place \in BOOLEAN, schemas \in ValueSchemaMaps, paths \in ValuePathMaps}

NoValue ==
    [swagger |-> None, openapi |-> None, info |-> FALSE, definitions |-> EmptyMap,
     components_schemas |-> EmptyMap, paths |-> EmptyMap]

ParserInit ==
    /\ vValue \in Values
    /\ vpc = "idle"
    /\ vVersion = NotDetected("")
    /\ vRet = ParseErr("")

ParserQuiet ==
    /\ vValue = NoValue
    /\ vpc = "idle"
    /\ vVersion = NotDetected("")
    /\ vRet = ParseErr("")

\* parser.rs 131-140
CallParseContent ==
    /\ vpc = "idle"
    /\ vVersion' = DetectVersion(vValue)
    /\ vRet' = ParseValue(vValue)
    /\ vpc' = "done"
    /\ UNCHANGED <<ioVars, graphVars, walkVars, diffVars, pageVars, vValue>>

ParserNext ==
    \/ CallParseContent

-----------------------------------------------------------------------------
(* parse_spec's paged formats (tools/parse.rs 181-313).  Every request     *)
(* parses the document again into fresh HashMaps; values() walks a HashMap *)
(* in an order that its hasher's random keys decide, so each request takes *)
(* some order of the entries.                                              *)

\* the orders in which a HashMap holding the keys S may be walked
Orders(S) ==
    {order \in [1..Cardinality(S) -> S] :
        \A i, j \in 1..Cardinality(S) : order[i] = order[j] => i = j}

\* str::to_ascii_lowercase of the tags in use
ToAsciiLowercase(tag) ==
    IF tag = "Users" THEN "users" ELSE IF tag = "Posts" THEN "posts" ELSE tag

EqIgnoreAsciiCase(a, b) == ToAsciiLowercase(a) = ToAsciiLowercase(b)

\* str::starts_with for the paths /users and /posts and the prefixes / and
\* /users
PathStartsWith(path, prefix) == prefix = "/" \/ path = prefix

\* parse.rs 189-201
PassesFilter(endpoint, inp) ==
    /\ inp.tag # None =>
           \E t \in endpoint.tags : EqIgnoreAsciiCase(t, inp.tag[1])
    /\ inp.path_prefix # None => PathStartsWith(endpoint.path, inp.path_prefix[1])

\* Iterator::skip(offset).take(limit)
SkipTake(items, offset, limit) ==
    [i \in 1..(IF Len(items) - offset < limit
               THEN (IF Len(items) > offset THEN Len(items) - offset ELSE 0)
               ELSE limit) |-> items[offset + i]]

\* parse.rs 273-278
PaginationInfo(total, offset, limit) ==
    [total |-> total, offset |-> offset, limit |-> limit,
     has_more |-> offset + limit < total]

NoPage == [success |-> FALSE, endpoints |-> None, schemas |-> None, pagination |-> None]

\* parse.rs 181-202 and 248-313: the answer to an endpoints or schemas
\* request, the two maps walked in the given orders; an item is shown by
\* its key or name
ParseSpecPaged(parsed, inp, endpoint_order, schema_order) ==
    LET limit == IF inp.limit = None THEN 50 ELSE inp.limit[1]
        offset == inp.offset
        filtered_endpoints ==
            SelectSeq(endpoint_order,
                      LAMBDA key : PassesFilter(parsed.endpoints[key], inp))
    IN  IF inp.format = "endpoints"
        THEN [success |-> TRUE,
              endpoints |-> Some(SkipTake(filtered_endpoints, offset, limit)),
              schemas |-> None,
              pagination |-> Some(PaginationInfo(Len(filtered_endpoints), offset, limit))]
        ELSE [success |-> TRUE,
              endpoints |-> None,
              schemas |-> Some(SkipTake(schema_order, offset, limit)),
              pagination |-> Some(PaginationInfo(Len(schema_order), offset, limit))]

-----------------------------------------------------------------------------
(* SpecPages: a client lists one unchanged document page by page, from     *)
(* offset 0 in steps of the limit until has_more is false.                 *)

ListedOperations ==
    {[method |-> m, path |-> path] : m \in {"get", "post"}, path \in {"/users", "/posts"}}

\* an endpoint as far as the listing reads it
TaggedEndpoint(op) ==
    [path |-> op.path, method |-> op.method,
     tags |-> IF op.path = "/users" THEN {"Users"} ELSE {"Posts"}]

\* A document holds endpoints or schemas.
PageSpecs ==
    {ParsedSpec([key \in {EndpointKey(op.method, op.path) : op \in ops} |->
                    TaggedEndpoint(CHOOSE op \in ops : EndpointKey(op.method, op.path) = key)],
                EmptyMap) : ops \in SUBSET ListedOperations}
    \cup {ParsedSpec(EmptyMap, [name \in D |-> Schema(name, {}, 1)]) :
             D \in SUBSET SchemaNames}

PageInputs ==
    [format : {"endpoints", "schemas"}, limit : {None, Some(1), Some(2)}, offset : {0},
     tag : {None, Some("users")}, path_prefix : {None, Some("/"), Some("/users")}]

PageInit ==
    /\ pSpec \in PageSpecs
    /\ pInput \in PageInputs
    /\ ppc = "ask"
    /\ pOut = NoPage
    /\ pItems = <<>>

PageQuiet ==
    /\ pSpec = ParsedSpec(EmptyMap, EmptyMap)
    /\ pInput = [format |-> "endpoints", limit |-> None, offset |-> 0, tag |-> None,
                 path_prefix |-> None]
    /\ ppc = "ask"
    /\ pOut = NoPage
    /\ pItems = <<>>

\* parse.rs 99-313: one request; the document is fetched and parsed anew
CallParseSpecPaged ==
    /\ ppc = "ask"
    /\ \E endpoint_order \in Orders(DOMAIN pSpec.endpoints),
          schema_order \in Orders(DOMAIN pSpec.schemas) :
        pOut' = ParseSpecPaged(pSpec, pInput, endpoint_order, schema_order)
    /\ ppc' = "answered"
    /\ UNCHANGED <<ioVars, graphVars, walkVars, diffVars, parserVars, pSpec, pInput, pItems>>

\* The client keeps the page and, when has_more is set, asks for the next
\* one at offset + limit.
TakePage ==
    /\ ppc = "answered"
    /\ pItems' = pItems \o (IF pInput.format = "endpoints"
                            THEN pOut.endpoints[1] ELSE pOut.schemas[1])
    /\ IF pOut.pagination[1].has_more
       THEN /\ pInput' = [pInput EXCEPT !.offset = @ + pOut.pagination[1].limit]
            /\ ppc' = "ask"
       ELSE /\ pInput' = pInput
            /\ ppc' = "done"
    /\ UNCHANGED <<ioVars, graphVars, walkVars, diffVars, parserVars, pSpec, pOut>>

PageNext ==
    \/ CallParseSpecPaged
    \/ TakePage

-----------------------------------------------------------------------------
(* Specifications *)

\* The server answering parse requests while its environment changes.
PureQuiet == GraphQuiet /\ WalkQuiet /\ DiffQuiet /\ ParserQuiet /\ PageQuiet
IoQuiet == ParseQuiet /\ CheckQuiet /\ SaveQuiet

Init == ParseInit /\ CheckQuiet /\ SaveQuiet /\ PureQuiet

Next ==
    \/ Tick
    \/ WriteFile
    \/ RemoveFile
    \/ RemoteUpdate
    \/ StartRequest
    \/ LoadStep
    \/ CheckStep
    \/ ParseStep
    \/ SaveStep
    \/ Deliver

Spec == Init /\ [][Next]_vars

\* The cache validity functions called directly.
InitCheck == CheckInit /\ ParseQuiet /\ SaveQuiet /\ PureQuiet
SpecCheck == InitCheck /\ [][CheckNext]_vars

\* Two save_cache calls and load_cache calls on one project directory.
InitSave == SaveInit /\ ParseQuiet /\ CheckQuiet /\ PureQuiet
SpecSave == InitSave /\ [][SaveNext]_vars

\* A dependency graph built from a document and queried.
InitGraph == GraphInit /\ WalkQuiet /\ DiffQuiet /\ ParserQuiet /\ PageQuiet /\ IoQuiet
SpecGraph == InitGraph /\ [][GraphNext]_vars

\* A graph filled by add calls and asked one question.
InitAdd == AddInit /\ WalkQuiet /\ DiffQuiet /\ ParserQuiet /\ PageQuiet /\ IoQuiet
SpecAdd == InitAdd /\ [][AddNext]_vars

\* One traversal of a built graph, call by call; a call that has begun
\* keeps running.
InitWalk == WalkInit /\ DiffQuiet /\ ParserQuiet /\ PageQuiet /\ IoQuiet
SpecWalk ==
    InitWalk /\ [][WalkNext]_vars /\ WF_vars(WalkCall) /\ WF_vars(WalkReturn)

\* Two documents compared.
InitDiff == DiffInit /\ GraphQuiet /\ WalkQuiet /\ ParserQuiet /\ PageQuiet /\ IoQuiet
SpecDiff == InitDiff /\ [][DiffNext]_vars

\* One document value parsed.
InitParser ==
    ParserInit /\ GraphQuiet /\ WalkQuiet /\ DiffQuiet /\ PageQuiet /\ IoQuiet
SpecParser == InitParser /\ [][ParserNext]_vars

\* One document listed page by page.
InitPages ==
    PageInit /\ GraphQuiet /\ WalkQuiet /\ DiffQuiet /\ ParserQuiet /\ IoQuiet
SpecPages == InitPages /\ [][PageNext]_vars

-----------------------------------------------------------------------------
(* Claims about the cache validity functions, checked under SpecCheck *)

\* C6: is_cache_expired returns false when exactly ttl_seconds seconds have
\* elapsed since last_fetch, and true when ttl_seconds + 1 seconds have.
C6_TtlBoundary ==
    (chkFn = "is_cache_expired" /\ ChkStampOk) =>
        /\ (ChkElapsed = chkCache.ttl_seconds * TicksPerSec => chkRet = FALSE)
        /\ (ChkElapsed = (chkCache.ttl_seconds + 1) * TicksPerSec => chkRet = TRUE)

\* A record with a TTL of 2 s is asked about exactly 2 s after its fetch.
C6_Witness ==
    /\ chkFn = "is_cache_expired"
    /\ ChkStampOk
    /\ chkCache.ttl_seconds = 2
    /\ ChkElapsed = 2 * TicksPerSec
    /\ chkRet = FALSE

\* C8: check_remote_cache on an expired record returns false and sends no
\* HEAD request.
C8_ExpiredSkipsProbe ==
    (chkFn = "check_remote_cache" /\ IsCacheExpired(chkCache, chkNow)) =>
        (chkRet = FALSE /\ chkProbes = 0)

\* An expired record (parsable stamp, TTL passed) is checked while the
\* client could have been built and the server would have answered.
C8_Witness ==
    /\ chkFn = "check_remote_cache"
    /\ ChkStampOk
    /\ IsCacheExpired(chkCache, chkNow)
    /\ chkEnv.clientOk
    /\ ~chkEnv.resp.neterr
    /\ chkRet = FALSE

\* The answer the spec's sentence gives for a non-expired record: true on a
\* network failure, else ETag equality when both are present, else
\* Last-Modified equality when both are present, else true.
C9Stated(cache, resp) ==
    IF resp.neterr THEN TRUE
    ELSE IF resp.etag # None /\ cache.http_cache.etag # None
        THEN resp.etag[1].s = cache.http_cache.etag[1]
    ELSE IF resp.last_modified # None /\ cache.http_cache.last_modified # None
        THEN resp.last_modified[1].s = cache.http_cache.last_modified[1]
    ELSE TRUE

\* C9 as stated: for every non-expired record check_remote_cache returns the
\* stated answer.
C9_AsStated ==
    (chkFn = "check_remote_cache" /\ ~IsCacheExpired(chkCache, chkNow)) =>
        chkRet = C9Stated(chkCache, chkEnv.resp)

\* The stated answer, with a returned header that is not visible ASCII
\* counted as absent.
C9Readable(cache, resp) ==
    IF resp.neterr THEN TRUE
    ELSE IF resp.etag # None /\ resp.etag[1].ascii /\ cache.http_cache.etag # None
        THEN resp.etag[1].s = cache.http_cache.etag[1]
    ELSE IF /\ resp.last_modified # None
            /\ resp.last_modified[1].ascii
            /\ cache.http_cache.last_modified # None
        THEN resp.last_modified[1].s = cache.http_cache.last_modified[1]
    ELSE TRUE

\* C9 (amended): for a non-expired record, check_remote_cache returns false
\* without probing when the HTTP client cannot be built; otherwise true on a
\* network failure, else ETag equality when both are present and the returned
\* one is readable text, else Last-Modified equality likewise, else true.
C9_RemoteValidity ==
    (chkFn = "check_remote_cache" /\ ~IsCacheExpired(chkCache, chkNow)) =>
        IF chkEnv.clientOk
        THEN chkRet = C9Readable(chkCache, chkEnv.resp) /\ chkProbes = 1
        ELSE chkRet = FALSE /\ chkProbes = 0

\* A fresh record whose ETag differs from the returned one while the
\* Last-Modified values agree: the ETag decides.
C9_Witness ==
    /\ chkFn = "check_remote_cache"
    /\ ~IsCacheExpired(chkCache, chkNow)
    /\ chkEnv.clientOk
    /\ chkEnv.resp = Response(Some(Hdr("e2")), Some(Hdr("m1")))
    /\ chkCache.http_cache = [etag |-> Some("e1"), last_modified |-> Some("m1")]
    /\ chkRet = FALSE

\* C10: for a non-expired record, check_local_cache returns true exactly
\* when the file can be stat'ed, has a modification time, and that time is
\* the one the cached snapshot records.
C10_LocalValidity ==
    (chkFn = "check_local_cache" /\ ~IsCacheExpired(chkCache, chkNow)) =>
        (chkRet <=>
            /\ chkEnv.stat.ok
            /\ chkEnv.stat.mtime # None
            /\ chkCache.local_cache.mtime # None
            /\ ParseFromRfc3339(chkCache.local_cache.mtime[1]).ok
            /\ ParseFromRfc3339(chkCache.local_cache.mtime[1]).t = chkEnv.stat.mtime[1])

\* A fresh record whose snapshot is the file's present modification time.
C10_Witness ==
    /\ chkFn = "check_local_cache"
    /\ ~IsCacheExpired(chkCache, chkNow)
    /\ chkEnv.stat = StatOk(Some(1))
    /\ chkCache.local_cache.mtime = Some(ToRfc3339(1))
    /\ chkRet = TRUE

-----------------------------------------------------------------------------
(* Claims about the parse request, checked under Spec *)

CheckEventNames == {"load_cache", "stat", "head"}
FetchEventNames == {"fetch", "fetch_err", "parse_ok", "parse_err"}
SaveEventNames == {"save_cache", "save_cache_err"}

Happened(events) == \E i \in 1..Len(trace) : trace[i] \in events

\* C1: within one request every cache load and validity check precedes the
\* fetch and parse, the cache is written only right after a successful
\* parse, and a request whose fetch or parse fails writes nothing and leaves
\* the stored record as it was.
C1_Ordering ==
    /\ \A i, j \in 1..Len(trace) :
        (trace[i] \in CheckEventNames /\ trace[j] \in FetchEventNames) => i < j
    /\ \A i \in 1..Len(trace) :
        trace[i] \in SaveEventNames =>
            (i = Len(trace) /\ i > 1 /\ trace[i - 1] = "parse_ok")
    /\ (pc = "done" /\ ~result.success) =>
            (cacheFile = cacheAtStart /\ ~Happened(SaveEventNames))
    /\ cacheFile # cacheAtStart =>
            (pc = "done" /\ result.success /\ trace[Len(trace)] = "save_cache")

\* A request that loaded a record, stat'ed the file, read it and failed to
\* parse it: the record it found is still there.
C1_Witness ==
    /\ pc = "done"
    /\ trace = <<"load_cache", "stat", "fetch", "parse_err">>
    /\ ~result.success
    /\ cacheFile # None
    /\ cacheFile = cacheAtStart

\* C4 as stated: a use_cache request for a local file that an earlier
\* request parsed and cached, arriving within the TTL, is answered from the
\* cache without reading the file when its modification time is unchanged,
\* and re-reads the file when the modification time changed.
C4_AsStated ==
    is_valid # None =>
        /\ (atCheck.sameFile /\ atCheck.sameMtime /\ atCheck.fresh) =>
                /\ is_valid = Some(TRUE)
                /\ ~Happened(FetchEventNames)
                /\ pc = "done" => result.error = Some(UsingCache)
        /\ (atCheck.sameFile /\ ~atCheck.sameMtime) =>
                /\ is_valid = Some(FALSE)
                /\ pc = "done" => Happened(FetchEventNames)

\* C5 as stated: the record saved after a parse carries the document hash,
\* the source, the condensed metadata, the given TTL or 86400, the ETag and
\* Last-Modified returned with a remote document, and the modification time
\* of a local document.
C5_AsStated ==
    (pc = "done" /\ Len(trace) > 0 /\ trace[Len(trace)] = "save_cache") =>
        LET c == LoadCache(cacheFile).cache IN
        /\ LoadCache(cacheFile).ok
        /\ c.spec_hash = spec[1].spec_hash
        /\ c.source = input.source
        /\ c.meta.title = Some(spec[1].metadata.title)
        /\ c.meta.version = Some(spec[1].metadata.version)
        /\ c.meta.endpoint_count = spec[1].metadata.endpoint_count
        /\ c.meta.schema_count = spec[1].metadata.schema_count
        /\ c.ttl_seconds = (IF input.ttl_seconds = None THEN 86400
                            ELSE input.ttl_seconds[1])
        /\ IsUrl(input.source) =>
                /\ c.http_cache.etag = fetched.headers.etag
                /\ c.http_cache.last_modified = fetched.headers.last_modified
        /\ ~IsUrl(input.source) =>
                c.local_cache.mtime = Some(ToRfc3339(fetched.mtime[1]))

\* C7: a loaded record whose last_fetch is not an RFC 3339 timestamp is
\* never found valid, for a local or a remote source: no HEAD request is
\* sent for it, the request goes on to fetch, and its answer is not the
\* cached one.
C7_UnparsableIsExpired ==
    (loaded # None /\ ~ParseFromRfc3339(loaded[1].last_fetch).ok /\ is_valid # None) =>
        /\ is_valid = Some(FALSE)
        /\ ~Happened({"head", "stat"})
        /\ pc = "done" => Happened({"fetch", "fetch_err"})
        /\ result.error # Some(UsingCache)

\* A use_cache request for the local file found the record with the
\* unparsable stamp, whose snapshot is the file's modification time, and
\* read the file all the same.
C7_Witness ==
    /\ pc = "done"
    /\ loaded = Some(ForeignRecord)
    /\ input.source = LocalSrc
    /\ file.exists /\ file.mtime = 0
    /\ trace[2] = "fetch"
    /\ result.success

\* C26 as stated: the answer of a parse request has success = true and no
\* error, or success = false, an error and no payload.
C26_AsStated ==
    pc = "done" =>
        /\ result.success => result.error = None
        /\ ~result.success => (result.error # None /\ result.metadata = None)

\* C27 as stated: a request is answered from the cache only when the stored
\* record was saved for the source the request names.
C27_AsStated ==
    (pc = "done" /\ is_valid = Some(TRUE)) =>
        /\ result = CachedOutput(loaded[1])
        /\ loaded[1].source = input.source

-----------------------------------------------------------------------------
(* Claims about concurrent saves and loads, checked under SpecSave *)

\* The complete records some save_cache call wrote.
WrittenRecords == {SaveRecord(w) : w \in Writers} \cup {OldRecord}

\* C2 as stated: whatever save_cache calls are in progress, load_cache
\* returns CacheNotFound or one complete record that a save_cache call
\* wrote, never a partly written one.
C2_AsStated ==
    reader.pc = "done" =>
        \/ reader.res = "CacheNotFound"
        \/ reader.res = "Ok" /\ reader.cache \in WrittenRecords

\* C3 as stated: once both concurrent save_cache calls have finished, the
\* cache file exists and holds exactly the record of one of them.
C3_AsStated ==
    (\A w \in Writers : writers[w].pc = "done") =>
        /\ dirFinal # 0
        /\ \E w \in Writers : inodes[dirFinal] = ToStringPretty(SaveRecord(w))

-----------------------------------------------------------------------------
(* Claims about the dependency graph, checked under SpecGraph.  They are   *)
(* stated on the document the graph was built from: its schema-to-schema   *)
(* references and the schemas each endpoint names.                         *)

\* schema a reaches schema b through one or more references of the document
Reaches(a, b) ==
    \E n \in 1..Cardinality(SchemaNames) :
        \E p \in [1..(n + 1) -> SchemaNames] :
            /\ p[1] = a
            /\ p[n + 1] = b
            /\ \A i \in 1..n : <<p[i], p[i + 1]>> \in SchemaEdges(gspec)

\* the endpoints that name the schema or name a schema that reaches it
AffectedEndpoints(schema) ==
    {key \in DOMAIN gspec.endpoints :
        \E s \in gspec.endpoints[key].schema_refs : s = schema \/ Reaches(s, schema)}

\* the schemas from which the schema is reached
Dependents(schema) == {s \in SchemaNames : Reaches(s, schema)}

\* the schemas the schema names itself
DirectRefs(schema) ==
    IF schema \in DOMAIN gspec.schemas THEN gspec.schemas[schema].refs ELSE {}

\* the schemas an endpoint names and all they reach
ReachedFrom(key) ==
    IF key \in DOMAIN gspec.endpoints
    THEN {s \in SchemaNames :
             \E d \in gspec.endpoints[key].schema_refs : s = d \/ Reaches(d, s)}
    ELSE {}

\* C11: get_affected_paths(S) is exactly the set of endpoints that use S
\* directly or use a schema that reaches S through one or more references,
\* so an endpoint using B, where B references A, is affected by A.
C11_AffectedPaths ==
    gcall.fn = "get_affected_paths" => gret.paths = AffectedEndpoints(gcall.target)

\* An endpoint is reported for a schema it does not name itself.
C11_Witness ==
    /\ gcall.fn = "get_affected_paths"
    /\ \E key \in gret.paths : gcall.target \notin gspec.endpoints[key].schema_refs

\* a name that is neither a key nor a member of any of the four maps
OccursNowhere(g, name) ==
    \A map \in {g.schema_to_paths, g.path_to_schemas, g.schema_to_schemas, g.schema_refs} :
        /\ name \notin DOMAIN map
        /\ \A k \in DOMAIN map : name \notin map[k]

QueryFns == {"get_affected_paths", "get_schema_dependents", "get_path_schemas", "query"}

\* C13: a query on a target name that occurs nowhere in the graph, by any
\* of the query operations, in any direction, as a schema or as a path,
\* returns empty sets of paths and of schemas (the operations return sets,
\* they have no error to return).
C13_UnknownTargetEmpty ==
    (gcall.fn \in QueryFns /\ OccursNowhere(graph, gcall.target)) =>
        /\ gret.paths = {}
        /\ gret.schemas = {}

\* A graph with edges is asked, in both directions, about a schema it
\* does not hold.
C13_Witness ==
    /\ gcall = [fn |-> "query", target |-> UnknownSchema, direction |-> "Both",
                is_schema |-> TRUE]
    /\ graph.schema_refs # EmptyMap
    /\ graph.schema_to_paths # EmptyMap

\* C14: query on a schema returns, Downstream, the affected endpoints and
\* the transitive dependents; Upstream, the schema's own one-hop references
\* and no paths; Both, the union of the two.  On a path it returns the
\* schemas the endpoint names together with all they reach, and no paths.
C14_Query ==
    gcall.fn = "query" =>
        IF gcall.is_schema
        THEN /\ gcall.direction = "Downstream" =>
                    /\ gret.paths = AffectedEndpoints(gcall.target)
                    /\ gret.schemas = Dependents(gcall.target)
             /\ gcall.direction = "Upstream" =>
                    /\ gret.paths = {}
                    /\ gret.schemas = DirectRefs(gcall.target)
             /\ gcall.direction = "Both" =>
                    /\ gret.paths = AffectedEndpoints(gcall.target)
                    /\ gret.schemas = Dependents(gcall.target) \cup DirectRefs(gcall.target)
        ELSE /\ gret.paths = {}
             /\ gret.schemas = ReachedFrom(gcall.target)

\* An Upstream query on a schema that reaches, through another one, a
\* schema it does not name: the answer leaves that schema out.
C14_Witness ==
    /\ gcall.fn = "query"
    /\ gcall.is_schema
    /\ gcall.direction = "Upstream"
    /\ \E s \in SchemaNames :
        /\ Reaches(gcall.target, s)
        /\ s \notin DirectRefs(gcall.target)
        /\ s \notin gret.schemas

\* C15: get_schema_dependents(S) is exactly the set of schemas from which S
\* is reached by one or more schema-to-schema references, and holds no
\* endpoint.
C15_SchemaDependents ==
    gcall.fn = "get_schema_dependents" =>
        /\ gret.schemas = Dependents(gcall.target)
        /\ gret.schemas \cap DOMAIN gspec.endpoints = {}
        /\ gret.paths = {}

\* A schema is reported that reaches the target only through another
\* schema, the target being used by an endpoint.
C15_Witness ==
    /\ gcall.fn = "get_schema_dependents"
    /\ \E s \in gret.schemas : gcall.target \notin DirectRefs(s)
    /\ GetAffectedPaths(graph, gcall.target) # {}

\* C16 as stated: stats() of the graph built from a document reports the
\* number of its schemas, the number of its endpoints, and the numbers of
\* distinct endpoint-to-schema and schema-to-schema edges.
C16_AsStated ==
    gcall.fn = "stats" =>
        /\ gret.stats.total_schemas = Cardinality(DOMAIN gspec.schemas)
        /\ gret.stats.total_paths = Cardinality(DOMAIN gspec.endpoints)
        /\ gret.stats.schema_to_path_edges = Cardinality(PathEdges(gspec))
        /\ gret.stats.schema_to_schema_edges = Cardinality(SchemaEdges(gspec))

-----------------------------------------------------------------------------
(* Claims about the traversals, checked under SpecWalk *)

\* C12: every traversal behind the graph queries (get_affected_paths,
\* get_path_schemas, get_schema_dependents, and so query, which only calls
\* them) comes to an end on graphs with self-references and with reference
\* cycles of any length, and what it returns is the finite set the function
\* is defined to return.
C12_Terminates ==
    /\ [](wpc = "done" => wacc = WalkAnswer)
    /\ (wpc = "running") ~> (wpc = "done")

\* A traversal has ended on a graph whose three schemas form one cycle.
C12_Witness ==
    /\ wpc = "done"
    /\ wcall.target \in SchemaNames
    /\ Cardinality(SchemaEdges(gspec)) = Cardinality(SchemaNames)
    /\ \A s \in SchemaNames : Reaches(s, s) /\ <<s, s>> \notin SchemaEdges(gspec)

\* A traversal has ended on a schema that references itself.
C12_WitnessSelf ==
    /\ wpc = "done"
    /\ <<wcall.target, wcall.target>> \in SchemaEdges(gspec)

-----------------------------------------------------------------------------
(* Claims about the add operations, checked under SpecAdd *)

\* every key of the four maps
GraphNames(g) ==
    DOMAIN g.schema_to_paths \cup DOMAIN g.path_to_schemas
    \cup DOMAIN g.schema_to_schemas \cup DOMAIN g.schema_refs

\* the reverse maps hold exactly the forward entries, turned round
Mirror(g) ==
    \A a \in GraphNames(g), b \in GraphNames(g) :
        /\ b \in Get(g.schema_to_schemas, a) <=> a \in Get(g.schema_refs, b)
        /\ b \in Get(g.path_to_schemas, a) <=> a \in Get(g.schema_to_paths, b)

\* C30: after any sequence of add_schema_schema_dep and add_path_schema_dep
\* calls b is in schema_to_schemas[a] exactly when a is in schema_refs[b],
\* and s is in path_to_schemas[p] exactly when p is in schema_to_paths[s];
\* a query or stats call leaves the four maps as they were.
C30_Mirror ==
    /\ []Mirror(graph)
    /\ [][gcall'.fn \in QueryFns \cup {"stats"} => graph' = graph]_vars

\* Three schema references, one of them a self reference, and two endpoint
\* uses have been added, and the graph was then asked for the paths a
\* schema affects.
C30_Witness ==
    /\ gcall.fn = "get_affected_paths"
    /\ GraphStats(graph).schema_to_schema_edges = MaxSchemaEdges
    /\ GraphStats(graph).schema_to_path_edges = MaxPathEdges
    /\ \E a \in SchemaNames : a \in Get(graph.schema_to_schemas, a)
    /\ gret.paths # {}

-----------------------------------------------------------------------------
(* Claims about the diff, checked under SpecDiff *)

\* how many entries of a list satisfy a test
CountIn(bag, Test(_)) ==
    BagCardinality([e \in {x \in DOMAIN bag : Test(x)} |-> bag[e]])

OldOnlyKeys == DOMAIN dOld.endpoints \ DOMAIN dNew.endpoints
OldOnlyNames == DOMAIN dOld.schemas \ DOMAIN dNew.schemas

\* C17: diff(spec, spec), with or without a graph, has no added, modified
\* or removed endpoint, no added, modified or removed schema, no breaking
\* change, and counts every endpoint and every schema of the spec as
\* unchanged.
C17_SelfDiff ==
    (dpc = "done" /\ dOld = dNew) =>
        /\ dDiff.added_endpoints = EmptyBag
        /\ dDiff.modified_endpoints = EmptyBag
        /\ dDiff.removed_endpoints = EmptyBag
        /\ dDiff.added_schemas = EmptyBag
        /\ dDiff.modified_schemas = EmptyBag
        /\ dDiff.removed_schemas = EmptyBag
        /\ dDiff.breaking_changes = EmptyBag
        /\ dDiff.unchanged_endpoints = Cardinality(DOMAIN dOld.endpoints)
        /\ dDiff.unchanged_schemas = Cardinality(DOMAIN dOld.schemas)

\* A document with two endpoints and two schemas, one referring to the
\* other, has been compared with itself using the graph.
C17_Witness ==
    /\ dpc = "done"
    /\ dOld = dNew
    /\ dWithGraph
    /\ DOMAIN dOld.endpoints = PathKeys
    /\ SchemaEdges(dOld) # {}
    /\ PathEdges(dOld) # {}

\* C18 as stated: for each endpoint key of old that new lacks there is
\* exactly one EndpointRemoved breaking change whose location is that
\* endpoint's path, for each schema name of old that new lacks exactly one
\* SchemaRemoved breaking change, and none for what new still holds.
C18_AsStated ==
    dpc = "done" =>
        /\ \A key \in OldOnlyKeys :
            CountIn(dDiff.breaking_changes,
                LAMBDA b : b.category = "EndpointRemoved"
                           /\ b.location = <<dOld.endpoints[key].path>>) = 1
        /\ \A name \in OldOnlyNames :
            CountIn(dDiff.breaking_changes,
                LAMBDA b : b.category = "SchemaRemoved" /\ b.message[2] = name) = 1
        /\ \A b \in DOMAIN dDiff.breaking_changes :
            /\ b.category = "EndpointRemoved" => b.message[2] \notin DOMAIN dNew.endpoints
            /\ b.category = "SchemaRemoved" => b.message[2] \notin DOMAIN dNew.schemas

\* C18: for each endpoint key of old that new lacks there is exactly one
\* EndpointRemoved breaking change naming that key, and its location is the
\* endpoint's path; there are as many EndpointRemoved changes as such keys
\* (two removed methods of one path give two changes at one location).  For
\* each schema name of old that new lacks there is exactly one SchemaRemoved
\* breaking change, and as many as such names; so none is produced for
\* anything new still holds.
C18_Removals ==
    dpc = "done" =>
        /\ \A key \in OldOnlyKeys :
            /\ CountIn(dDiff.breaking_changes,
                   LAMBDA b : b.category = "EndpointRemoved" /\ b.message[2] = key) = 1
            /\ \A b \in DOMAIN dDiff.breaking_changes :
                   (b.category = "EndpointRemoved" /\ b.message[2] = key) =>
                       b.location = <<dOld.endpoints[key].path>>
        /\ CountIn(dDiff.breaking_changes, LAMBDA b : b.category = "EndpointRemoved")
               = Cardinality(OldOnlyKeys)
        /\ \A name \in OldOnlyNames :
            CountIn(dDiff.breaking_changes,
                LAMBDA b : b.category = "SchemaRemoved" /\ b.message[2] = name) = 1
        /\ CountIn(dDiff.breaking_changes, LAMBDA b : b.category = "SchemaRemoved")
               = Cardinality(OldOnlyNames)

\* Both methods of one path and a schema are gone from new, which still
\* holds another schema.
C18_Witness ==
    /\ dpc = "done"
    /\ OldOnlyKeys = PathKeys
    /\ OldOnlyNames # {}
    /\ DOMAIN dNew.schemas # {}

BothKeys == DOMAIN dOld.endpoints \cap DOMAIN dNew.endpoints

\* the parameters an endpoint of both documents has gained
GainedParameters(key) ==
    {p \in dNew.endpoints[key].parameters :
        p.name \notin {q.name : q \in dOld.endpoints[key].parameters}}

\* C19 as stated, first half: when an endpoint of both documents gains a
\* required parameter, breaking_changes holds a ParameterAdded change.
C19_RequiredIsBreaking ==
    dpc = "done" =>
        \A key \in BothKeys : \A p \in GainedParameters(key) :
            p.required =>
                \E b \in DOMAIN dDiff.breaking_changes : b.category = "ParameterAdded"

\* C19 as stated, second half: when it gains an optional parameter, no
\* breaking change is produced for it and the endpoint's change list
\* carries a note of the added parameter.
C19_OptionalIsNoted ==
    dpc = "done" =>
        \A key \in BothKeys : \A p \in GainedParameters(key) :
            ~p.required =>
                /\ \A b \in DOMAIN dDiff.breaking_changes : b.category # "ParameterAdded"
                /\ \E e \in DOMAIN dDiff.modified_endpoints :
                    /\ e.key = key
                    /\ \E n \in e.changes : n[2] = p.name

\* C19 as stated: an endpoint of both documents that gains a required
\* parameter gets a ParameterAdded breaking change; one that gains an
\* optional parameter gets no breaking change and a note of the added
\* parameter in its change list.
C19_AsStated == C19_RequiredIsBreaking /\ C19_OptionalIsNoted

\* how often a schema name is listed
Listed(bag, name) == CountIn(bag, LAMBDA e : e.name = name)

\* C20: every schema name of old or new is in exactly one class: Added when
\* only new has it, Removed when only old has it, Unchanged when both have
\* it with equal hashes, Modified when both have it with differing hashes;
\* so added + modified + unchanged is the number of new schemas and
\* removed + modified + unchanged the number of old ones.
C20_SchemaClasses ==
    dpc = "done" =>
        LET old_names == DOMAIN dOld.schemas
            new_names == DOMAIN dNew.schemas
            Same(name) == dOld.schemas[name].hash = dNew.schemas[name].hash
        IN  /\ \A name \in old_names \cup new_names :
                /\ Listed(dDiff.added_schemas, name)
                       = (IF name \notin old_names THEN 1 ELSE 0)
                /\ Listed(dDiff.removed_schemas, name)
                       = (IF name \notin new_names THEN 1 ELSE 0)
                /\ Listed(dDiff.modified_schemas, name)
                       = (IF name \in old_names \cap new_names /\ ~Same(name)
                          THEN 1 ELSE 0)
            /\ dDiff.unchanged_schemas
                   = Cardinality({name \in old_names \cap new_names : Same(name)})
            /\ BagCardinality(dDiff.added_schemas) + BagCardinality(dDiff.modified_schemas)
                   + dDiff.unchanged_schemas = Cardinality(new_names)
            /\ BagCardinality(dDiff.removed_schemas) + BagCardinality(dDiff.modified_schemas)
                   + dDiff.unchanged_schemas = Cardinality(old_names)

\* A schema whose hash changed while its references did not is listed as
\* modified, beside a schema that only new has.
C20_Witness ==
    /\ dpc = "done"
    /\ \E e \in DOMAIN dDiff.modified_schemas :
        dOld.schemas[e.name].refs = dNew.schemas[e.name].refs
    /\ BagCardinality(dDiff.added_schemas) = 1

\* how often an endpoint key is listed
ListedKey(bag, key) == CountIn(bag, LAMBDA e : e.key = key)

\* the schema names both documents hold with differing hashes
ModifiedNames ==
    {name \in DOMAIN dOld.schemas \cap DOMAIN dNew.schemas :
        dOld.schemas[name].hash # dNew.schemas[name].hash}

\* C21: every endpoint key of old or new is in exactly one class: Added
\* when only new has it, Removed when only old has it, and for a key of
\* both Unchanged when the hashes are equal and no schema named in the new
\* endpoint's schema_refs is Modified, else Modified; so added + modified +
\* unchanged is the number of new endpoints and removed + modified +
\* unchanged the number of old ones.
C21_EndpointClasses ==
    dpc = "done" =>
        LET old_keys == DOMAIN dOld.endpoints
            new_keys == DOMAIN dNew.endpoints
            Same(key) == dOld.endpoints[key].hash = dNew.endpoints[key].hash
            Touched(key) == dNew.endpoints[key].schema_refs \cap ModifiedNames # {}
            Stays(key) == Same(key) /\ ~Touched(key)
        IN  /\ \A key \in old_keys \cup new_keys :
                /\ ListedKey(dDiff.added_endpoints, key)
                       = (IF key \notin old_keys THEN 1 ELSE 0)
                /\ ListedKey(dDiff.removed_endpoints, key)
                       = (IF key \notin new_keys THEN 1 ELSE 0)
                /\ ListedKey(dDiff.modified_endpoints, key)
                       = (IF key \in BothKeys /\ ~Stays(key) THEN 1 ELSE 0)
            /\ dDiff.unchanged_endpoints = Cardinality({key \in BothKeys : Stays(key)})
            /\ BagCardinality(dDiff.added_endpoints)
                   + BagCardinality(dDiff.modified_endpoints)
                   + dDiff.unchanged_endpoints = Cardinality(new_keys)
            /\ BagCardinality(dDiff.removed_endpoints)
                   + BagCardinality(dDiff.modified_endpoints)
                   + dDiff.unchanged_endpoints = Cardinality(old_keys)

\* Both documents hold both endpoints with equal hashes; GET /users names
\* a schema whose hash changed and is listed as modified, POST /users is
\* counted unchanged.
C21_Witness ==
    /\ dpc = "done"
    /\ BothKeys = PathKeys
    /\ \A key \in BothKeys : dOld.endpoints[key].hash = dNew.endpoints[key].hash
    /\ ListedKey(dDiff.modified_endpoints, EndpointKey("get", "/users")) = 1
    /\ dDiff.unchanged_endpoints = 1

\* C22 as stated: in a diff computed with the graph of the new spec, an
\* endpoint of both documents is listed as modified whenever the graph
\* leads from a Modified schema to it, whatever its own hash, and its
\* affected_by_schemas is exactly the set of those Modified schemas.
C22_AsStated ==
    (dpc = "done" /\ dWithGraph) =>
        \A key \in BothKeys :
            LET causes == {s \in ModifiedNames : key \in GetAffectedPaths(Build(dNew), s)}
            IN  causes # {} =>
                    \E e \in DOMAIN dDiff.modified_endpoints :
                        e.key = key /\ e.affected_by_schemas = causes

\* C28 as stated: in a diff computed with the graph of the new spec, every
\* endpoint key that affected_endpoints of some modified schema lists and
\* that both documents hold is listed in modified_endpoints.
C28_AsStated ==
    (dpc = "done" /\ dWithGraph) =>
        \A m \in DOMAIN dDiff.modified_schemas :
            \A key \in m.affected_endpoints \cap BothKeys :
                ListedKey(dDiff.modified_endpoints, key) > 0

\* C23: the breaking-only view of a diff holds the removed endpoints, the
\* removed schemas and the breaking changes of the full diff, no added
\* endpoint, no added schema, and zero for both unchanged counts.
C23_BreakingOnly ==
    (dpc = "done" /\ dBreakingOnly) =>
        /\ dOut.success
        /\ dOut.diff # None
        /\ dOut.diff[1].removed_endpoints = dDiff.removed_endpoints
        /\ dOut.diff[1].removed_schemas = dDiff.removed_schemas
        /\ dOut.diff[1].breaking_changes = dDiff.breaking_changes
        /\ dOut.diff[1].added_endpoints = EmptyBag
        /\ dOut.diff[1].added_schemas = EmptyBag
        /\ dOut.diff[1].unchanged_endpoints = 0
        /\ dOut.diff[1].unchanged_schemas = 0

\* The breaking-only view was asked of a diff with a removed endpoint, a
\* removed schema, an added schema and an unchanged endpoint.
C23_Witness ==
    /\ dpc = "done"
    /\ dBreakingOnly
    /\ dDiff.removed_endpoints # EmptyBag
    /\ dDiff.removed_schemas # EmptyBag
    /\ dDiff.added_schemas # EmptyBag
    /\ dDiff.unchanged_endpoints > 0
    /\ dOut.diff[1].breaking_changes # EmptyBag

-----------------------------------------------------------------------------
(* Claims about the parser, checked under SpecParser *)

\* the answer the sentence gives: Swagger 2.0 for a swagger text starting
\* with "2.", else OpenAPI 3.0 or 3.1 for an openapi text starting with
\* "3.0" or "3.1", else the invalid-document failure when both fields are
\* absent, else the unsupported-version failure
StatedVersion(value) ==
    IF AsStr(value.swagger) # None /\ StartsWith(AsStr(value.swagger)[1], <<"2", ".">>)
    THEN Detected("Swagger2")
    ELSE IF AsStr(value.openapi) # None
            /\ StartsWith(AsStr(value.openapi)[1], <<"3", ".", "0">>)
    THEN Detected("OpenApi30")
    ELSE IF AsStr(value.openapi) # None
            /\ StartsWith(AsStr(value.openapi)[1], <<"3", ".", "1">>)
    THEN Detected("OpenApi31")
    ELSE IF value.swagger = None /\ value.openapi = None
    THEN NotDetected("E203")
    ELSE NotDetected("E204")

\* C24 as stated: version detection selects Swagger 2.0, OpenAPI 3.0 or
\* OpenAPI 3.1 by the prefix of the field's value, fails as unsupported
\* version (E204) for any other value of either field, and fails as invalid
\* document (E203) only when both fields are absent.
C24_AsStated ==
    vpc = "done" => vVersion = StatedVersion(vValue)

\* the $ref texts of the part of the document the parse reads
RefsRead(value) ==
    UNION {value.paths[key] : key \in DOMAIN value.paths}
    \cup (IF vVersion.version = "Swagger2"
          THEN UNION {value.definitions[name] : name \in DOMAIN value.definitions}
          ELSE UNION {value.components_schemas[name] :
                          name \in DOMAIN value.components_schemas})

\* the schema names the parse finds defined
DefinedNames(value) ==
    IF vVersion.version = "Swagger2"
    THEN DOMAIN value.definitions ELSE DOMAIN value.components_schemas

\* a $ref into another file, or to a name the document does not define
Unresolved(value, ref_str) ==
    \/ ref_str[1] = ExternalFile
    \/ ref_str[Len(ref_str)] \notin DefinedNames(value)

\* C25 as stated: parsing a document of a supported version with an info
\* object, in which an operation or a schema holds a $ref to an undefined
\* schema name or into another file, fails as unresolved reference (E205).
C25_AsStated ==
    (/\ vpc = "done"
     /\ vVersion.ok
     /\ vValue.info
     /\ \E ref_str \in RefsRead(vValue) : Unresolved(vValue, ref_str)) =>
        (~vRet.ok /\ vRet.err = "E205")

-----------------------------------------------------------------------------
(* Claims about the paged listing, checked under SpecPages *)

\* the items a listing is to show: the endpoint keys that pass the filter,
\* or every schema name
Matching ==
    IF pInput.format = "endpoints"
    THEN {key \in DOMAIN pSpec.endpoints : PassesFilter(pSpec.endpoints[key], pInput)}
    ELSE DOMAIN pSpec.schemas

\* C29 as stated: once has_more is false, the pages received hold every
\* matching item exactly once.
C29_AsStated ==
    ppc = "done" =>
        /\ Len(pItems) = Cardinality(Matching)
        /\ {pItems[i] : i \in 1..Len(pItems)} = Matching

====
